---- MODULE Spec2Model ----
(***************************************************************************)
(* Event-producing state machines of the markdown tokenizer: the setext    *)
(* heading construct (construct/heading_setext.rs) and the label factory   *)
(* (construct/partial_label.rs), driven one code at a time over a          *)
(* tokenizer with an event log, a stack of open spans and nestable         *)
(* attempts (spec 4.3).                                                    *)
(*                                                                         *)
(* A code is one of "a" (any ordinary character), "lf" "cr" "crlf" (line   *)
(* endings), "sp" "tab" "vs" (space, tab, virtual space), "-" "=" "[" "]"  *)
(* "\\" "/" and "eof" (Code::None).                                        *)
(***************************************************************************)
EXTENDS Integers, Sequences, FiniteSets, TLC

VARIABLES
    construct,  \* which construct is being run: "heading_setext" or "label"
    codes,      \* the codes fetched from the input so far (includes a final "eof")
    budget,     \* how many more codes the input may still deliver before "eof"
    state,      \* the state function to call on the next code, or "Ok" / "Nok" / "Panic"
    events,     \* tokenizer.events
    stack,      \* tokenizer.stack: names of the spans that are open
    point,      \* tokenizer.point
    cursor,     \* 1-based position in `codes` of the code handled next
    attempts,   \* frames of the attempts in progress, innermost last
    kind,       \* heading_setext: the underline's Kind, captured by the closure
    info,       \* label: Info { connect, data, size }
    remainder,  \* the codes handed back with the final Ok
    panic,      \* "" or the assertion / unreachable!() that aborted the run
    shift,      \* Point::shift_to: its arguments and the point it returns
    looked_up   \* the Name looked up in VOID_EVENTS

vars == <<construct, codes, budget, state, events, stack, point, cursor,
          attempts, kind, info, remainder, panic, shift, looked_up>>

(***************************************************************************)
(* Bounds of the model and program constants.                              *)
(***************************************************************************)
MaxLen == 6
MaxTail == 2
MaxIndent == 5

TAB_SIZE == 4
LINK_REFERENCE_SIZE_MAX == 999

(***************************************************************************)
(* Codes.                                                                  *)
(***************************************************************************)
Eol == {"lf", "cr", "crlf"}
SpaceOrTab == {"sp", "tab", "vs"}

SetextAlphabet == {"a", "lf", "sp", "tab", "-", "="}
LabelAlphabet == {"a", "[", "]", "\\", "/", "sp", "tab", "lf"}

Last(s) == s[Len(s)]
Front(s) == SubSeq(s, 1, Len(s) - 1)

\* The classifier's expansion of one input unit met at `column`: a tab is
\* followed by the virtual spaces up to the next tab stop.
Expand(unit, column) ==
    IF unit = "tab"
    THEN <<"tab">> \o [i \in 1..(TAB_SIZE - ((column - 1) % TAB_SIZE) - 1) |-> "vs"]
    ELSE <<unit>>

\* Mutant: a virtual space does not move the column.
advance_column_stays(p, code) ==
    IF code \in Eol
    THEN [line |-> p.line + 1, column |-> 1,
          index |-> p.index + (IF code = "crlf" THEN 2 ELSE 1), vs |-> 0]
    ELSE IF code = "vs"
    THEN [p EXCEPT !.vs = @ + 1]
    ELSE [p EXCEPT !.column = @ + 1, !.index = @ + 1]

\* Point tracker: advance(code).
advance(p, code) ==
    IF code \in Eol
    THEN [line |-> p.line + 1, column |-> 1,
          index |-> p.index + (IF code = "crlf" THEN 2 ELSE 1), vs |-> 0]
    ELSE IF code = "vs"
    THEN [p EXCEPT !.column = @ + 1, !.vs = @ + 1]
    ELSE [p EXCEPT !.column = @ + 1, !.index = @ + 1]

(***************************************************************************)
(* Events.  previous / next are Option<usize>: <<>> is None, <<i>> is      *)
(* Some(i), with i a 0-based index into the event log as in the source.    *)
(***************************************************************************)
Event(k, name, p) ==
    [kind |-> k, name |-> name, point |-> p, previous |-> <<>>, next |-> <<>>]

\* events[i] for a 0-based i.
At(evs, i) == evs[i + 1]

\* VOID_EVENTS: the names of the spans that have no children.
VOID_EVENTS ==
    {"AttentionSequence", "AutolinkEmail", "AutolinkMarker",
     "AutolinkProtocol", "BlankLineEnding", "BlockQuoteMarker",
     "ByteOrderMark", "CharacterEscapeMarker", "CharacterEscapeValue",
     "CharacterReferenceMarker", "CharacterReferenceMarkerHexadecimal",
     "CharacterReferenceMarkerNumeric", "CharacterReferenceMarkerSemi",
     "CharacterReferenceValue", "CodeFencedFenceSequence", "CodeFlowChunk",
     "CodeTextData", "CodeTextSequence", "Data",
     "DefinitionDestinationLiteralMarker", "DefinitionLabelMarker",
     "DefinitionMarker", "DefinitionTitleMarker", "EmphasisSequence",
     "FrontmatterChunk", "GfmAutolinkLiteralEmail",
     "GfmAutolinkLiteralProtocol", "GfmAutolinkLiteralWww",
     "GfmFootnoteCallMarker", "GfmFootnoteDefinitionLabelMarker",
     "GfmFootnoteDefinitionMarker", "GfmStrikethroughSequence",
     "GfmTaskListItemMarker", "GfmTaskListItemValueChecked",
     "GfmTaskListItemValueUnchecked", "FrontmatterSequence",
     "HardBreakEscape", "HardBreakTrailing", "HeadingAtxSequence",
     "HeadingSetextUnderline", "HtmlFlowData", "HtmlTextData",
     "LabelImageMarker", "LabelMarker", "LineEnding", "ListItemMarker",
     "ListItemValue", "MathTextData", "MathTextSequence", "ReferenceMarker",
     "ResourceMarker", "ResourceTitleMarker", "SpaceOrTab", "StrongSequence",
     "ThematicBreakSequence"}

\* enum Name: every variant.
Names ==
    {"AttentionSequence", "Autolink", "AutolinkEmail", "AutolinkMarker",
     "AutolinkProtocol", "BlankLineEnding", "BlockQuote", "BlockQuoteMarker",
     "BlockQuotePrefix", "ByteOrderMark", "CharacterEscape",
     "CharacterEscapeMarker", "CharacterEscapeValue", "CharacterReference",
     "CharacterReferenceMarker", "CharacterReferenceMarkerHexadecimal",
     "CharacterReferenceMarkerNumeric", "CharacterReferenceMarkerSemi",
     "CharacterReferenceValue", "CodeFenced", "CodeFencedFence",
     "CodeFencedFenceInfo", "CodeFencedFenceMeta", "CodeFencedFenceSequence",
     "CodeFlowChunk", "CodeIndented", "CodeText", "CodeTextData",
     "CodeTextSequence", "Data", "Definition", "DefinitionDestination",
     "DefinitionDestinationLiteral", "DefinitionDestinationLiteralMarker",
     "DefinitionDestinationRaw", "DefinitionDestinationString",
     "DefinitionLabel", "DefinitionLabelMarker", "DefinitionLabelString",
     "DefinitionMarker", "DefinitionTitle", "DefinitionTitleMarker",
     "DefinitionTitleString", "Emphasis", "EmphasisSequence", "EmphasisText",
     "Frontmatter", "FrontmatterChunk", "FrontmatterFence",
     "FrontmatterSequence", "GfmAutolinkLiteralEmail",
     "GfmAutolinkLiteralProtocol", "GfmAutolinkLiteralWww",
     "GfmFootnoteCall", "GfmFootnoteCallLabel", "GfmFootnoteCallMarker",
     "GfmFootnoteDefinition", "GfmFootnoteDefinitionPrefix",
     "GfmFootnoteDefinitionLabel", "GfmFootnoteDefinitionLabelMarker",
     "GfmFootnoteDefinitionLabelString", "GfmFootnoteDefinitionMarker",
     "GfmStrikethrough", "GfmStrikethroughSequence", "GfmStrikethroughText",
     "GfmTaskListItemCheck", "GfmTaskListItemMarker",
     "GfmTaskListItemValueChecked", "GfmTaskListItemValueUnchecked",
     "HardBreakEscape", "HardBreakTrailing", "HeadingAtx",
     "HeadingAtxSequence", "HeadingAtxText", "HeadingSetext",
     "HeadingSetextText", "HeadingSetextUnderline", "HtmlFlow",
     "HtmlFlowData", "HtmlText", "HtmlTextData", "Image", "Label",
     "LabelEnd", "LabelImage", "LabelImageMarker", "LabelLink",
     "LabelMarker", "LabelText", "LineEnding", "Link", "ListItem",
     "ListItemMarker", "ListItemPrefix", "ListItemValue", "ListOrdered",
     "ListUnordered", "MathText", "MathTextData", "MathTextSequence",
     "Paragraph", "Reference", "ReferenceMarker", "ReferenceString",
     "Resource", "ResourceDestination", "ResourceDestinationLiteral",
     "ResourceDestinationLiteralMarker", "ResourceDestinationRaw",
     "ResourceDestinationString", "ResourceMarker", "ResourceTitle",
     "ResourceTitleMarker", "ResourceTitleString", "SpaceOrTab", "Strong",
     "StrongSequence", "StrongText", "ThematicBreak", "ThematicBreakSequence"}

\* The variants of Name whose documentation says `Content model: void`.
DocumentedVoid ==
    {"AutolinkEmail", "AutolinkMarker", "AutolinkProtocol",
     "BlankLineEnding", "BlockQuoteMarker", "ByteOrderMark",
     "CharacterEscapeMarker", "CharacterEscapeValue",
     "CharacterReferenceMarker", "CharacterReferenceMarkerHexadecimal",
     "CharacterReferenceMarkerNumeric", "CharacterReferenceMarkerSemi",
     "CharacterReferenceValue", "CodeFencedFenceSequence", "CodeFlowChunk",
     "CodeTextData", "CodeTextSequence", "Data",
     "DefinitionDestinationLiteralMarker", "DefinitionLabelMarker",
     "DefinitionMarker", "DefinitionTitleMarker", "EmphasisSequence",
     "FrontmatterChunk", "FrontmatterSequence", "GfmAutolinkLiteralEmail",
     "GfmAutolinkLiteralProtocol", "GfmAutolinkLiteralWww",
     "GfmFootnoteCallMarker", "GfmFootnoteDefinitionLabelMarker",
     "GfmFootnoteDefinitionMarker", "GfmStrikethroughSequence",
     "GfmTaskListItemMarker", "GfmTaskListItemValueChecked",
     "GfmTaskListItemValueUnchecked", "HardBreakEscape", "HardBreakTrailing",
     "HeadingAtxSequence", "HeadingSetextUnderline", "HtmlFlowData",
     "HtmlTextData", "LabelImageMarker", "LabelMarker", "LineEnding",
     "ListItemMarker", "ListItemValue", "MathTextData", "MathTextSequence",
     "ReferenceMarker", "ResourceDestinationLiteralMarker", "ResourceMarker",
     "ResourceTitleMarker", "SpaceOrTab", "StrongSequence",
     "ThematicBreakSequence"}

NoName == ""

(***************************************************************************)
(* Tokenizer primitives.  `t` is the tokenizer: a record of the variables  *)
(* above.  After a panic nothing has any further effect.                   *)
(***************************************************************************)
Panic(t, why) == IF t.panic # "" THEN t ELSE [t EXCEPT !.panic = why]

enter(t, name) ==
    IF t.panic # "" THEN t
    ELSE [t EXCEPT !.events = Append(@, Event("Enter", name, t.point)),
                   !.stack = Append(@, name)]

exit(t, name) ==
    IF t.panic # "" THEN t
    ELSE IF t.stack = <<>> THEN Panic(t, "cannot close w/o open tokens")
    ELSE IF Last(t.stack) # name THEN Panic(t, "expected exit to match current")
    ELSE [t EXCEPT !.events = Append(@, Event("Exit", name, t.point)),
                   !.stack = Front(@)]

consume(t, code) ==
    IF t.panic # "" THEN t
    ELSE IF code = "eof" THEN Panic(t, "consumed past end of input")
    ELSE [t EXCEPT !.point = advance(@, code), !.cursor = @ + 1]

\* tokenizer.events.pop()
pop(t) ==
    IF t.panic # "" THEN t
    ELSE IF t.events = <<>> THEN t
    ELSE [t EXCEPT !.events = Front(@)]

\* events[previous].next = Some(next); events[next].previous = Some(previous);
\* Rust panics on a negative usize and on an index outside the vector.
set_link(t, previous, next) ==
    IF t.panic # "" THEN t
    ELSE IF previous < 0 \/ next < 0 THEN Panic(t, "attempt to subtract with overflow")
    ELSE IF previous >= Len(t.events) \/ next >= Len(t.events)
    THEN Panic(t, "index out of bounds")
    ELSE [t EXCEPT !.events[previous + 1].next = <<next>>,
                   !.events[next + 1].previous = <<previous>>]

\* (State::Fn(next), None)
Fn(t, next) == IF t.panic # "" THEN t ELSE [t EXCEPT !.state = next]

\* The extent of the span that ends at events[index], in codes: every byte
\* code advances point.index and every virtual space point.vs.
from_exit_event(evs, index) ==
    [start_index |-> At(evs, index - 1).point.index + At(evs, index - 1).point.vs,
     end_index |-> At(evs, index).point.index + At(evs, index).point.vs]

RECURSIVE Call(_, _, _)
RECURSIVE Settle(_, _, _)

\* (State::Ok, Some(vec![code])) or (State::Ok, None)
Ok(t, rest) == Settle(t, TRUE, rest)
\* (State::Nok, None)
Nok(t) == Settle(t, FALSE, <<>>)

\* tokenizer.attempt(body, |ok| if ok { ok_state } else { nok_state })(tokenizer, code)
attempt(body, ok_state, nok_state, t, code) ==
    IF t.panic # "" THEN t
    ELSE Call(body,
              [t EXCEPT !.attempts = Append(@,
                  [events_len |-> Len(t.events), stack_len |-> Len(t.stack),
                   point |-> t.point, cursor |-> t.cursor,
                   ok |-> ok_state, nok |-> nok_state, rollback |-> TRUE])],
              code)

\* tokenizer.go(body, after)(tokenizer, code): a failure of body is the
\* failure of the caller, nothing is rolled back.
go(body, after_state, t, code) ==
    IF t.panic # "" THEN t
    ELSE Call(body,
              [t EXCEPT !.attempts = Append(@,
                  [events_len |-> Len(t.events), stack_len |-> Len(t.stack),
                   point |-> t.point, cursor |-> t.cursor,
                   ok |-> after_state, nok |-> "", rollback |-> FALSE])],
              code)

(***************************************************************************)
(* partial_whitespace: a run of one or more spaces, tabs and virtual       *)
(* spaces inside one Whitespace span; Nok when there is none.              *)
(***************************************************************************)
whitespace(t, code) ==
    IF code \in SpaceOrTab
    THEN Fn(consume(enter(t, "Whitespace"), code), "whitespace_inside")
    ELSE Nok(t)

whitespace_inside(t, code) ==
    IF code \in SpaceOrTab
    THEN Fn(consume(t, code), "whitespace_inside")
    ELSE Ok(exit(t, "Whitespace"), <<code>>)

(***************************************************************************)
(* partial_space_or_tab: space_or_tab_opt(), zero or more spaces, tabs     *)
(* and virtual spaces; always Ok.                                          *)
(***************************************************************************)
space_or_tab_opt(t, code) ==
    IF code \in SpaceOrTab
    THEN Fn(consume(enter(t, "Whitespace"), code), "space_or_tab_inside")
    ELSE Ok(t, <<code>>)

space_or_tab_inside(t, code) ==
    IF code \in SpaceOrTab
    THEN Fn(consume(t, code), "space_or_tab_inside")
    ELSE Ok(exit(t, "Whitespace"), <<code>>)

(***************************************************************************)
(* construct/heading_setext.rs                                             *)
(***************************************************************************)
\* Mutant: only the end of the input ends an underline.
underline_after_eof_only(t, code) ==
    IF code = "eof"
    THEN Ok(exit(t, "HeadingSetextUnderline"), <<code>>)
    ELSE Nok(t)

underline_after(t, code) ==
    IF code = "eof" \/ code \in Eol
    THEN Ok(exit(t, "HeadingSetextUnderline"), <<code>>)
    ELSE Nok(t)

\* Mutant: either marker continues the sequence.
underline_sequence_inside_any_marker(t, code) ==
    IF code \in {"-", "="}
    THEN Fn(consume(t, code), "underline_sequence_inside")
    ELSE IF code \in SpaceOrTab
    THEN attempt("whitespace", "underline_after", "underline_after", t, code)
    ELSE underline_after(t, code)

underline_sequence_inside(t, code) ==
    LET marker == IF t.kind = "Dash" THEN "-" ELSE "="
    IN  IF code = marker
        THEN Fn(consume(t, code), "underline_sequence_inside")
        ELSE IF code \in SpaceOrTab
        THEN attempt("whitespace", "underline_after", "underline_after", t, code)
        ELSE underline_after(t, code)

\* Mutant: an indent of exactly TAB_SIZE is let through.
underline_sequence_start_off_by_one(t, code) ==
    LET n == Len(t.events)
        prefix == IF n > 0 /\ Last(t.events).name = "Whitespace"
                  THEN from_exit_event(t.events, n - 1).end_index
                       - from_exit_event(t.events, n - 1).start_index
                  ELSE 0
    IN  IF prefix > TAB_SIZE
        THEN Nok(t)
        ELSE IF code = "-" \/ code = "="
        THEN underline_sequence_inside(
                 enter([t EXCEPT !.kind = IF code = "-" THEN "Dash" ELSE "EqualsTo"],
                       "HeadingSetextUnderline"),
                 code)
        ELSE Nok(t)

\* Mutant: an indented underline is refused.
underline_sequence_start_no_indent(t, code) ==
    LET n == Len(t.events)
        prefix == IF n > 0 /\ Last(t.events).name = "Whitespace"
                  THEN from_exit_event(t.events, n - 1).end_index
                       - from_exit_event(t.events, n - 1).start_index
                  ELSE 0
    IN  IF prefix >= 1
        THEN Nok(t)
        ELSE IF code = "-" \/ code = "="
        THEN underline_sequence_inside(
                 enter([t EXCEPT !.kind = IF code = "-" THEN "Dash" ELSE "EqualsTo"],
                       "HeadingSetextUnderline"),
                 code)
        ELSE Nok(t)

underline_sequence_start(t, code) ==
    LET n == Len(t.events)
        prefix == IF n > 0 /\ Last(t.events).name = "Whitespace"
                  THEN from_exit_event(t.events, n - 1).end_index
                       - from_exit_event(t.events, n - 1).start_index
                  ELSE 0
    IN  IF prefix >= TAB_SIZE
        THEN Nok(t)
        ELSE IF code = "-" \/ code = "="
        THEN underline_sequence_inside(
                 enter([t EXCEPT !.kind = IF code = "-" THEN "Dash" ELSE "EqualsTo"],
                       "HeadingSetextUnderline"),
                 code)
        ELSE Nok(t)

underline_start(t, code) ==
    attempt("whitespace", "underline_sequence_start", "underline_sequence_start", t, code)

\* Mutant: the line ending before the underline is consumed without events.
underline_before_no_line_ending(t, code) ==
    IF code \in Eol
    THEN Fn(consume(t, code), "underline_start")
    ELSE Panic(t, "expected eol")

underline_before(t, code) ==
    IF code \in Eol
    THEN Fn(exit(consume(enter(t, "LineEnding"), code), "LineEnding"), "underline_start")
    ELSE Panic(t, "expected eol")

\* Mutant: the code that ended the underline is consumed, not handed back.
after_consumes(t, code) ==
    Ok(exit(consume(t, code), "HeadingSetext"), <<>>)

after(t, code) ==
    Ok(exit(t, "HeadingSetext"), <<code>>)

\* Mutant: the text span is still open when the underline attempt starts.
text_inside_text_left_open(t, code) ==
    IF code = "eof" THEN Nok(t)
    ELSE IF code \in Eol
    THEN attempt("underline_before", "after", "text_continue",
                 exit(t, "ChunkText"), code)
    ELSE Fn(consume(t, code), "text_inside")

\* Mutant: the end of the input starts an underline attempt as well.
text_inside_attempt_on_eof(t, code) ==
    IF code = "eof" \/ code \in Eol
    THEN attempt("underline_before", "after", "text_continue",
                 exit(exit(t, "ChunkText"), "HeadingSetextText"), code)
    ELSE Fn(consume(t, code), "text_inside")

\* Mutant: an ordinary code is not consumed.
text_inside_no_consume(t, code) ==
    IF code = "eof" THEN Nok(t)
    ELSE IF code \in Eol
    THEN attempt("underline_before", "after", "text_continue",
                 exit(exit(t, "ChunkText"), "HeadingSetextText"), code)
    ELSE Fn(t, "text_inside")

text_inside(t, code) ==
    IF code = "eof" THEN Nok(t)
    ELSE IF code \in Eol
    THEN attempt("underline_before", "after", "text_continue",
                 exit(exit(t, "ChunkText"), "HeadingSetextText"), code)
    ELSE Fn(consume(t, code), "text_inside")

\* Mutant: the chunk is linked to the event just before it, an Exit.
text_line_start_links_exit(t, code) ==
    LET next == Len(t.events) - 2
        previous == next - 2
        linked == IF next >= 0 /\ At(t.events, next).name = "Whitespace"
                  THEN set_link(t, previous, next)
                  ELSE IF next < 0 THEN Panic(t, "attempt to subtract with overflow")
                  ELSE t
    IN  IF code = "eof" \/ code \in Eol
        THEN Nok(linked)
        ELSE LET next2 == Len(linked.events)
                 previous2 == next2 - 1
             IN  text_inside(set_link(enter(linked, "ChunkText"), previous2, next2), code)

\* Mutant: the whitespace that opens a line is not linked to the line
\* ending before it.
text_line_start_no_whitespace_link(t, code) ==
    IF code = "eof" \/ code \in Eol
    THEN Nok(t)
    ELSE LET next2 == Len(t.events)
             previous2 == next2 - 2
         IN  text_inside(set_link(enter(t, "ChunkText"), previous2, next2), code)

\* Mutant: only the end of the input ends the text, a blank line does not.
text_line_start_eof_only(t, code) ==
    LET next == Len(t.events) - 2
        previous == next - 2
        linked == IF next >= 0 /\ At(t.events, next).name = "Whitespace"
                  THEN set_link(t, previous, next)
                  ELSE IF next < 0 THEN Panic(t, "attempt to subtract with overflow")
                  ELSE t
    IN  IF code = "eof"
        THEN Nok(linked)
        ELSE LET next2 == Len(linked.events)
                 previous2 == next2 - 2
             IN  text_inside(set_link(enter(linked, "ChunkText"), previous2, next2), code)

text_line_start(t, code) ==
    LET next == Len(t.events) - 2
        previous == next - 2
        linked == IF next >= 0 /\ At(t.events, next).name = "Whitespace"
                  THEN set_link(t, previous, next)
                  ELSE IF next < 0 THEN Panic(t, "attempt to subtract with overflow")
                  ELSE t
    IN  IF code = "eof" \/ code \in Eol
        THEN Nok(linked)
        ELSE LET next2 == Len(linked.events)
                 previous2 == next2 - 2
             IN  text_inside(set_link(enter(linked, "ChunkText"), previous2, next2), code)

\* Mutant: one pop instead of two, the Exit HeadingSetextText stays.
text_continue_pop_once(t, code) ==
    LET popped == pop(enter(t, "HeadingSetextText"))
    IN  IF code \in Eol
        THEN LET next == Len(popped.events)
                 previous == next - 2
             IN  Fn(set_link(exit(consume(enter(popped, "LineEnding"), code), "LineEnding"),
                             previous, next),
                    "text_continue_whitespace")
        ELSE Panic(popped, "expected eol")

\* Mutant: no pops, a second HeadingSetextText span is opened.
text_continue_no_pop(t, code) ==
    LET entered == enter(t, "HeadingSetextText")
    IN  IF code \in Eol
        THEN LET next == Len(entered.events)
                 previous == next - 2
             IN  Fn(set_link(exit(consume(enter(entered, "LineEnding"), code), "LineEnding"),
                             previous, next),
                    "text_continue_whitespace")
        ELSE Panic(entered, "expected eol")

\* Mutant: the line ending gets no link back to the chunk before it.
text_continue_forward_link_only(t, code) ==
    LET popped == pop(pop(enter(t, "HeadingSetextText")))
    IN  IF code \in Eol
        THEN LET next == Len(popped.events)
                 previous == next - 2
                 ended == exit(consume(enter(popped, "LineEnding"), code), "LineEnding")
             IN  Fn([ended EXCEPT !.events[previous + 1].next = <<next>>],
                    "text_continue_whitespace")
        ELSE Panic(popped, "expected eol")

\* Mutant: three pops, the Exit ChunkText goes as well.
text_continue_pop_thrice(t, code) ==
    LET popped == pop(pop(pop(enter(t, "HeadingSetextText"))))
    IN  IF code \in Eol
        THEN LET next == Len(popped.events)
                 previous == next - 2
             IN  Fn(set_link(exit(consume(enter(popped, "LineEnding"), code), "LineEnding"),
                             previous, next),
                    "text_continue_whitespace")
        ELSE Panic(popped, "expected eol")

text_continue(t, code) ==
    LET popped == pop(pop(enter(t, "HeadingSetextText")))
    IN  IF code \in Eol
        THEN LET next == Len(popped.events)
                 previous == next - 2
             IN  Fn(set_link(exit(consume(enter(popped, "LineEnding"), code), "LineEnding"),
                             previous, next),
                    "text_continue_whitespace")
        ELSE Panic(popped, "expected eol")

\* The state function text_continue returns:
\* tokenizer.attempt(whitespace, |_ok| text_line_start)
text_continue_whitespace(t, code) ==
    attempt("whitespace", "text_line_start", "text_line_start", t, code)

heading_setext_start(t, code) ==
    IF code = "eof" \/ code \in Eol
    THEN Panic(t, "expected non-eol/eof")
    ELSE text_inside(enter(enter(enter(t, "HeadingSetext"), "HeadingSetextText"),
                           "ChunkText"), code)

(***************************************************************************)
(* construct/partial_label.rs, with Options { label: DefinitionLabel,      *)
(* marker: DefinitionLabelMarker, string: DefinitionLabelString }.         *)
(***************************************************************************)
Options == [label |-> "DefinitionLabel", marker |-> "DefinitionLabelMarker",
            string |-> "DefinitionLabelString"]

\* util::link::link(events, index): connect the Enter at `index` to the
\* preceding Enter of the same name.
link(t, index) ==
    IF t.panic # "" THEN t
    ELSE LET same == {j \in 0..(index - 1) :
                         /\ At(t.events, j).kind = "Enter"
                         /\ At(t.events, j).name = At(t.events, index).name}
         IN  IF same = {} THEN Panic(t, "nothing to link to")
             ELSE set_link(t, CHOOSE j \in same : \A k \in same : k <= j, index)

\* Mutant: the label is entered before the code is looked at.
label_start_enters_first(t, code) ==
    IF code = "["
    THEN Fn(enter(exit(consume(enter(enter(
                [t EXCEPT !.info = [connect |-> FALSE, data |-> FALSE, size |-> 0]],
                Options.label), Options.marker), code), Options.marker), Options.string),
            "at_break")
    ELSE Nok(enter(t, Options.label))

label_start(t, code) ==
    IF code = "["
    THEN Fn(enter(exit(consume(enter(enter(
                [t EXCEPT !.info = [connect |-> FALSE, data |-> FALSE, size |-> 0]],
                Options.label), Options.marker), code), Options.marker), Options.string),
            "at_break")
    ELSE Nok(t)

RECURSIVE label(_, _)

\* Mutant: the closing bracket is not consumed but handed back.
at_break_hands_back(t, code) ==
    IF code = "eof" \/ code = "[" THEN Nok(t)
    ELSE IF code = "]" /\ ~t.info.data THEN Nok(t)
    ELSE IF t.info.size > LINK_REFERENCE_SIZE_MAX THEN Nok(t)
    ELSE IF code = "]"
    THEN Ok(exit(exit(enter(exit(t, Options.string), Options.marker),
                      Options.marker), Options.label),
            <<code>>)
    ELSE LET entered == enter(t, "ChunkString")
         IN  IF t.info.connect
             THEN label(link(entered, Len(entered.events) - 1), code)
             ELSE label([entered EXCEPT !.info.connect = TRUE], code)

\* Mutant: the size limit is exclusive.
at_break_exclusive_limit(t, code) ==
    IF code = "eof" \/ code = "[" THEN Nok(t)
    ELSE IF code = "]" /\ ~t.info.data THEN Nok(t)
    ELSE IF t.info.size >= LINK_REFERENCE_SIZE_MAX THEN Nok(t)
    ELSE IF code = "]"
    THEN Ok(exit(exit(consume(enter(exit(t, Options.string), Options.marker), code),
                      Options.marker), Options.label),
            <<>>)
    ELSE LET entered == enter(t, "ChunkString")
         IN  IF t.info.connect
             THEN label(link(entered, Len(entered.events) - 1), code)
             ELSE label([entered EXCEPT !.info.connect = TRUE], code)

\* Mutant: `connect` is never set, so no chunk is linked.
at_break_connect_unset(t, code) ==
    IF code = "eof" \/ code = "[" THEN Nok(t)
    ELSE IF code = "]" /\ ~t.info.data THEN Nok(t)
    ELSE IF t.info.size > LINK_REFERENCE_SIZE_MAX THEN Nok(t)
    ELSE IF code = "]"
    THEN Ok(exit(exit(consume(enter(exit(t, Options.string), Options.marker), code),
                      Options.marker), Options.label),
            <<>>)
    ELSE LET entered == enter(t, "ChunkString")
         IN  IF t.info.connect
             THEN label(link(entered, Len(entered.events) - 1), code)
             ELSE label(entered, code)

at_break(t, code) ==
    IF code = "eof" \/ code = "[" THEN Nok(t)
    ELSE IF code = "]" /\ ~t.info.data THEN Nok(t)
    ELSE IF t.info.size > LINK_REFERENCE_SIZE_MAX THEN Nok(t)
    ELSE IF code = "]"
    THEN Ok(exit(exit(consume(enter(exit(t, Options.string), Options.marker), code),
                      Options.marker), Options.label),
            <<>>)
    ELSE LET entered == enter(t, "ChunkString")
         IN  IF t.info.connect
             THEN label(link(entered, Len(entered.events) - 1), code)
             ELSE label([entered EXCEPT !.info.connect = TRUE], code)

\* Mutant: no check for a blank line.
line_begin_no_blank_check(t, code) ==
    at_break(t, code)

line_begin(t, code) ==
    IF code \in Eol THEN Nok(t) ELSE at_break(t, code)

\* Mutant: the whitespace that opens a line is not skipped.
line_start_no_whitespace_skip(t, code) ==
    line_begin(t, code)

line_start(t, code) ==
    go("space_or_tab_opt", "line_begin", t, code)

\* Mutant: an escaped bracket or backslash is not counted.
escape_uncounted(t, code) ==
    IF code \in {"[", "\\", "]"}
    THEN Fn(consume(t, code), "label")
    ELSE label(t, code)

escape(t, code) ==
    IF code \in {"[", "\\", "]"}
    THEN Fn([consume(t, code) EXCEPT !.info.size = @ + 1], "label")
    ELSE label(t, code)

\* Mutant: whitespace counts as data.
label_whitespace_is_data(t, code) ==
    IF code = "eof" \/ code = "[" \/ code = "]"
    THEN at_break(exit(t, "ChunkString"), code)
    ELSE IF t.info.size > LINK_REFERENCE_SIZE_MAX
    THEN at_break(exit(t, "ChunkString"), code)
    ELSE IF code \in Eol
    THEN Fn(exit([consume(t, code) EXCEPT !.info.size = @ + 1], "ChunkString"),
            "line_start")
    ELSE IF code \in SpaceOrTab
    THEN Fn([consume(t, code) EXCEPT !.info.size = @ + 1, !.info.data = TRUE], "label")
    ELSE IF code = "/"
    THEN Fn([consume(t, code) EXCEPT !.info.size = @ + 1, !.info.data = TRUE], "escape")
    ELSE Fn([consume(t, code) EXCEPT !.info.size = @ + 1, !.info.data = TRUE], "label")

\* Mutant: the chunk is left open over the line ending.
label_chunk_left_open(t, code) ==
    IF code = "eof" \/ code = "[" \/ code = "]"
    THEN at_break(exit(t, "ChunkString"), code)
    ELSE IF t.info.size > LINK_REFERENCE_SIZE_MAX
    THEN at_break(exit(t, "ChunkString"), code)
    ELSE IF code \in Eol
    THEN Fn([consume(t, code) EXCEPT !.info.size = @ + 1], "line_start")
    ELSE IF code \in SpaceOrTab
    THEN Fn([consume(t, code) EXCEPT !.info.size = @ + 1], "label")
    ELSE IF code = "/"
    THEN Fn([consume(t, code) EXCEPT !.info.size = @ + 1, !.info.data = TRUE], "escape")
    ELSE Fn([consume(t, code) EXCEPT !.info.size = @ + 1, !.info.data = TRUE], "label")

label(t, code) ==
    IF code = "eof" \/ code = "[" \/ code = "]"
    THEN at_break(exit(t, "ChunkString"), code)
    ELSE IF t.info.size > LINK_REFERENCE_SIZE_MAX
    THEN at_break(exit(t, "ChunkString"), code)
    ELSE IF code \in Eol
    THEN Fn(exit([consume(t, code) EXCEPT !.info.size = @ + 1], "ChunkString"),
            "line_start")
    ELSE IF code \in SpaceOrTab
    THEN Fn([consume(t, code) EXCEPT !.info.size = @ + 1], "label")
    ELSE IF code = "/"
    THEN Fn([consume(t, code) EXCEPT !.info.size = @ + 1, !.info.data = TRUE], "escape")
    ELSE Fn([consume(t, code) EXCEPT !.info.size = @ + 1, !.info.data = TRUE], "label")

(***************************************************************************)
(* event.rs: Point::shift_to(&self, bytes, index).  Bytes are "a" (any     *)
(* ordinary byte), "tab", "lf" and "cr".  `debug_assertions` says whether  *)
(* the build checks debug_assert!.  The result is the point returned, or   *)
(* the panic that aborted the call.                                        *)
(***************************************************************************)
NoShift == <<>>

\* Mutant: line endings are stepped over like ordinary bytes.
RECURSIVE shift_loop_over_line_endings(_, _, _)
shift_loop_over_line_endings(next, bytes, index) ==
    IF ~(next.index < index) THEN [next |-> next, panic |-> ""]
    ELSE IF next.index >= Len(bytes) THEN [next |-> next, panic |-> "index out of bounds"]
    ELSE IF bytes[next.index + 1] = "tab"
    THEN [next |-> next, panic |-> "to do: tab"]
    ELSE shift_loop_over_line_endings(
             [next EXCEPT !.index = @ + 1, !.column = @ + 1], bytes, index)

\* The while loop of shift_to.
RECURSIVE shift_loop(_, _, _)
shift_loop(next, bytes, index) ==
    IF ~(next.index < index) THEN [next |-> next, panic |-> ""]
    ELSE IF next.index >= Len(bytes) THEN [next |-> next, panic |-> "index out of bounds"]
    ELSE IF bytes[next.index + 1] \in {"lf", "cr"}
    THEN [next |-> next, panic |-> "cannot move past line endings"]
    ELSE IF bytes[next.index + 1] = "tab"
    THEN [next |-> next, panic |-> "to do: tab"]
    ELSE shift_loop([next EXCEPT !.index = @ + 1, !.column = @ + 1], bytes, index)

shift_to(self, bytes, index, debug_assertions) ==
    IF debug_assertions /\ ~(index > self.index)
    THEN [next |-> self, panic |-> "expect"]
    ELSE shift_loop(self, bytes, index)

(***************************************************************************)
(* The driver: calling a state function by name, and settling an attempt.  *)
(***************************************************************************)
Call(fn, t, code) ==
    IF t.panic # "" THEN t
    ELSE CASE fn = "heading_setext_start" -> heading_setext_start(t, code)
           [] fn = "text_inside" -> text_inside(t, code)
           [] fn = "text_continue" -> text_continue(t, code)
           [] fn = "text_continue_whitespace" -> text_continue_whitespace(t, code)
           [] fn = "text_line_start" -> text_line_start(t, code)
           [] fn = "after" -> after(t, code)
           [] fn = "underline_before" -> underline_before(t, code)
           [] fn = "underline_start" -> underline_start(t, code)
           [] fn = "underline_sequence_start" -> underline_sequence_start(t, code)
           [] fn = "underline_sequence_inside" -> underline_sequence_inside(t, code)
           [] fn = "underline_after" -> underline_after(t, code)
           [] fn = "whitespace" -> whitespace(t, code)
           [] fn = "whitespace_inside" -> whitespace_inside(t, code)
           [] fn = "space_or_tab_opt" -> space_or_tab_opt(t, code)
           [] fn = "space_or_tab_inside" -> space_or_tab_inside(t, code)
           [] fn = "label_start" -> label_start(t, code)
           [] fn = "at_break" -> at_break(t, code)
           [] fn = "line_start" -> line_start(t, code)
           [] fn = "line_begin" -> line_begin(t, code)
           [] fn = "label" -> label(t, code)
           [] fn = "escape" -> escape(t, code)

\* Mutant: a failed attempt restores the point and the cursor but leaves
\* its events in the log.
Settle_keeps_events(t, ok, rest) ==
    IF t.panic # "" THEN t
    ELSE IF t.attempts = <<>>
    THEN [t EXCEPT !.state = IF ok THEN "Ok" ELSE "Nok", !.remainder = rest]
    ELSE LET frame == Last(t.attempts)
             kept == [t EXCEPT !.attempts = Front(@)]
             freed == [kept EXCEPT !.stack = SubSeq(@, 1, frame.stack_len),
                                   !.point = frame.point,
                                   !.cursor = frame.cursor]
         IN  IF ok THEN Call(frame.ok, kept, kept.codes[kept.cursor])
             ELSE IF ~frame.rollback THEN Settle(kept, FALSE, <<>>)
             ELSE Call(frame.nok, freed, freed.codes[freed.cursor])

\* A state function returned Ok or Nok.  Without an attempt in progress that
\* is the construct's result.  Otherwise the innermost attempt is done: on
\* Ok its events are kept, on Nok the event log, the stack of open spans,
\* the point and the cursor go back to what they were at its start; the
\* chosen continuation gets the code that is then current.
Settle(t, ok, rest) ==
    IF t.panic # "" THEN t
    ELSE IF t.attempts = <<>>
    THEN [t EXCEPT !.state = IF ok THEN "Ok" ELSE "Nok", !.remainder = rest]
    ELSE LET frame == Last(t.attempts)
             kept == [t EXCEPT !.attempts = Front(@)]
             freed == [kept EXCEPT !.events = SubSeq(@, 1, frame.events_len),
                                   !.stack = SubSeq(@, 1, frame.stack_len),
                                   !.point = frame.point,
                                   !.cursor = frame.cursor]
         IN  IF ok THEN Call(frame.ok, kept, kept.codes[kept.cursor])
             ELSE IF ~frame.rollback THEN Settle(kept, FALSE, <<>>)
             ELSE Call(frame.nok, freed, freed.codes[freed.cursor])

(***************************************************************************)
(* The state machine.                                                      *)
(***************************************************************************)
StartPoint == [line |-> 1, column |-> 1, index |-> 0, vs |-> 0]

Alphabet == IF construct = "heading_setext" THEN SetextAlphabet ELSE LabelAlphabet

\* The code sequences the next code can come from: the code at the cursor is
\* already known after a rollback, otherwise the input delivers one more unit
\* or ends.
Fetch ==
    IF cursor <= Len(codes) THEN {codes}
    ELSE {codes \o Expand(u, point.column) : u \in IF budget > 0 THEN Alphabet ELSE {}}
         \cup {codes \o <<"eof">>}

Tokenizer(cs) ==
    [codes |-> cs, state |-> state, events |-> events, stack |-> stack,
     point |-> point, cursor |-> cursor, attempts |-> attempts, kind |-> kind,
     info |-> info, remainder |-> remainder, panic |-> panic]

\* One step of the driver: fetch the code at the cursor and call the current
\* state function with it.
Drive(fn, cs) ==
    \E t \in {Call(fn, Tokenizer(cs), cs[cursor])} :
        /\ codes' = cs
        /\ budget' = IF cs = codes \/ Last(cs) = "eof" THEN budget ELSE budget - 1
        /\ state' = IF t.panic # "" THEN "Panic" ELSE t.state
        /\ events' = t.events
        /\ stack' = t.stack
        /\ point' = t.point
        /\ cursor' = t.cursor
        /\ attempts' = t.attempts
        /\ kind' = t.kind
        /\ info' = t.info
        /\ remainder' = t.remainder
        /\ panic' = t.panic
        /\ UNCHANGED <<construct, shift, looked_up>>

InitTokenizer ==
    /\ codes = <<>>
    /\ events = <<>>
    /\ stack = <<>>
    /\ point = StartPoint
    /\ cursor = 1
    /\ attempts = <<>>
    /\ kind = "None"
    /\ info = [connect |-> FALSE, data |-> FALSE, size |-> 0]
    /\ remainder = <<>>
    /\ panic = ""
    /\ shift = NoShift
    /\ looked_up = NoName

\* heading_setext: the caller starts it on a code that is neither a line
\* ending nor the end of the input.
InitSetext ==
    /\ construct = "heading_setext"
    /\ state = "heading_setext_start"
    /\ budget = MaxLen
    /\ InitTokenizer

Start ==
    /\ state = "heading_setext_start"
    /\ \E cs \in Fetch : cs[cursor] \notin Eol \cup {"eof"} /\ Drive("heading_setext_start", cs)

TextInside ==
    /\ state = "text_inside"
    /\ \E cs \in Fetch : Drive("text_inside", cs)

TextContinueWhitespace ==
    /\ state = "text_continue_whitespace"
    /\ \E cs \in Fetch : Drive("text_continue_whitespace", cs)

UnderlineStart ==
    /\ state = "underline_start"
    /\ \E cs \in Fetch : Drive("underline_start", cs)

UnderlineSequenceInside ==
    /\ state = "underline_sequence_inside"
    /\ \E cs \in Fetch : Drive("underline_sequence_inside", cs)

WhitespaceInside ==
    /\ state = "whitespace_inside"
    /\ \E cs \in Fetch : Drive("whitespace_inside", cs)

NextSetext ==
    \/ Start
    \/ TextInside
    \/ TextContinueWhitespace
    \/ UnderlineStart
    \/ UnderlineSequenceInside
    \/ WhitespaceInside

SpecSetext == InitSetext /\ [][NextSetext]_vars

\* The label factory, started on any code.
InitLabel ==
    /\ construct = "label"
    /\ state = "label_start"
    /\ budget = MaxLen
    /\ InitTokenizer

LabelStart ==
    /\ state = "label_start"
    /\ \E cs \in Fetch : Drive("label_start", cs)

AtBreak ==
    /\ state = "at_break"
    /\ \E cs \in Fetch : Drive("at_break", cs)

LineStart ==
    /\ state = "line_start"
    /\ \E cs \in Fetch : Drive("line_start", cs)

Label ==
    /\ state = "label"
    /\ \E cs \in Fetch : Drive("label", cs)

Escape ==
    /\ state = "escape"
    /\ \E cs \in Fetch : Drive("escape", cs)

SpaceOrTabInside ==
    /\ state = "space_or_tab_inside"
    /\ \E cs \in Fetch : Drive("space_or_tab_inside", cs)

NextLabel ==
    \/ LabelStart
    \/ AtBreak
    \/ LineStart
    \/ Label
    \/ Escape
    \/ SpaceOrTabInside

SpecLabel == InitLabel /\ [][NextLabel]_vars

\* Either construct, on any input.
InitBoth == InitSetext \/ InitLabel

NextBoth == NextSetext \/ NextLabel

SpecBoth == InitBoth /\ [][NextBoth]_vars

(***************************************************************************)
(* heading_setext on inputs whose second line starts with a run of spaces  *)
(* and tabs of up to MaxIndent units; what follows is free.                *)
(***************************************************************************)
RECURSIVE ExpandAll(_, _)
ExpandAll(units, column) ==
    IF units = <<>> THEN <<>>
    ELSE LET head == Expand(units[1], column)
         IN  head \o ExpandAll(SubSeq(units, 2, Len(units)), column + Len(head))

Indents ==
    {ExpandAll(units, 1) :
        units \in UNION {[1..n -> {"sp", "tab"}] : n \in 0..MaxIndent}}

InitIndent ==
    /\ construct = "heading_setext"
    /\ state = "heading_setext_start"
    /\ budget = MaxTail
    /\ codes \in {<<"a", "lf">> \o indent : indent \in Indents}
    /\ events = <<>>
    /\ stack = <<>>
    /\ point = StartPoint
    /\ cursor = 1
    /\ attempts = <<>>
    /\ kind = "None"
    /\ info = [connect |-> FALSE, data |-> FALSE, size |-> 0]
    /\ remainder = <<>>
    /\ panic = ""
    /\ shift = NoShift
    /\ looked_up = NoName

SpecIndent == InitIndent /\ [][NextSetext]_vars

(***************************************************************************)
(* The label factory on inputs that open with `[` and a long run of        *)
(* ordinary characters, around LINK_REFERENCE_SIZE_MAX of them; what       *)
(* follows is free.                                                        *)
(***************************************************************************)
FillSlack == 2

Fills == (LINK_REFERENCE_SIZE_MAX - FillSlack)..(LINK_REFERENCE_SIZE_MAX + FillSlack)

InitLabelLong ==
    /\ construct = "label"
    /\ state = "label_start"
    /\ budget = MaxTail
    /\ codes \in {<<"[">> \o [i \in 1..n |-> "a"] : n \in Fills}
    /\ events = <<>>
    /\ stack = <<>>
    /\ point = StartPoint
    /\ cursor = 1
    /\ attempts = <<>>
    /\ kind = "None"
    /\ info = [connect |-> FALSE, data |-> FALSE, size |-> 0]
    /\ remainder = <<>>
    /\ panic = ""
    /\ shift = NoShift
    /\ looked_up = NoName

SpecLabelLong == InitLabelLong /\ [][NextLabel]_vars

(***************************************************************************)
(* Either construct on inputs of up to MaxLines codes with line endings of *)
(* all three flavours (after the `[` for the label factory).  A carriage   *)
(* return followed by a line feed is one code, never two.                  *)
(***************************************************************************)
MaxLines == 4

SetextLineCodes == {"a", "lf", "cr", "crlf", "sp", "-"}
LabelLineCodes == {"a", "lf", "cr", "crlf", "sp", "]", "/"}

Lines(alphabet) ==
    {cs \in UNION {[1..n -> alphabet] : n \in 1..MaxLines} :
        \A p \in 1..(Len(cs) - 1) : ~(cs[p] = "cr" /\ cs[p + 1] = "lf")}

InitLines ==
    /\ \/ /\ construct = "heading_setext"
          /\ state = "heading_setext_start"
          /\ codes \in {cs \in Lines(SetextLineCodes) : cs[1] \notin Eol}
       \/ /\ construct = "label"
          /\ state = "label_start"
          /\ codes \in {<<"[">> \o cs : cs \in Lines(LabelLineCodes)}
    /\ budget = 0
    /\ events = <<>>
    /\ stack = <<>>
    /\ point = StartPoint
    /\ cursor = 1
    /\ attempts = <<>>
    /\ kind = "None"
    /\ info = [connect |-> FALSE, data |-> FALSE, size |-> 0]
    /\ remainder = <<>>
    /\ panic = ""
    /\ shift = NoShift
    /\ looked_up = NoName

SpecLines == InitLines /\ [][NextBoth]_vars

(***************************************************************************)
(* Point::shift_to on byte buffers of up to MaxBytes bytes, from every     *)
(* point the tracker reaches in the buffer, to every target index, in      *)
(* builds with and without debug assertions.                               *)
(***************************************************************************)
MaxBytes == 4

ShiftBytes == {"a", "tab", "lf", "cr"}

\* The point after advancing p code by code over bytes[from..to] (1-based):
\* CR LF is one code, a tab is followed by its virtual spaces.
RECURSIVE AdvanceCodes(_, _)
AdvanceCodes(p, cs) ==
    IF cs = <<>> THEN p ELSE AdvanceCodes(advance(p, cs[1]), SubSeq(cs, 2, Len(cs)))

RECURSIVE AdvanceBytes(_, _, _, _)
AdvanceBytes(p, bytes, from, to) ==
    IF from > to THEN p
    ELSE IF bytes[from] = "cr" /\ from < to /\ bytes[from + 1] = "lf"
    THEN AdvanceBytes(advance(p, "crlf"), bytes, from + 2, to)
    ELSE AdvanceBytes(AdvanceCodes(p, Expand(bytes[from], p.column)), bytes, from + 1, to)

\* The byte counts at which a code ends: not between a CR and its LF.
Boundaries(bytes) ==
    {i \in 0..Len(bytes) : ~(i >= 1 /\ i < Len(bytes)
                              /\ bytes[i] = "cr" /\ bytes[i + 1] = "lf")}

InitShift ==
    /\ construct = "shift_to"
    /\ state = "shift_to"
    /\ budget = 0
    /\ codes = <<>>
    /\ events = <<>>
    /\ stack = <<>>
    /\ point = StartPoint
    /\ cursor = 1
    /\ attempts = <<>>
    /\ kind = "None"
    /\ info = [connect |-> FALSE, data |-> FALSE, size |-> 0]
    /\ remainder = <<>>
    /\ panic = ""
    /\ looked_up = NoName
    /\ \E bytes \in UNION {[1..n -> ShiftBytes] : n \in 0..MaxBytes} :
       \E i \in Boundaries(bytes) :
       \E index \in 0..(Len(bytes) + 1) :
       \E debug_assertions \in BOOLEAN :
           shift = [bytes |-> bytes,
                    self |-> AdvanceBytes(StartPoint, bytes, 1, i),
                    index |-> index,
                    debug_assertions |-> debug_assertions,
                    next |-> <<>>]

\* The call returns a point or panics.
ShiftTo ==
    /\ state = "shift_to"
    /\ \E r \in {shift_to(shift.self, shift.bytes, shift.index, shift.debug_assertions)} :
          /\ state' = IF r.panic # "" THEN "Panic" ELSE "returned"
          /\ panic' = r.panic
          /\ shift' = [shift EXCEPT !.next = IF r.panic # "" THEN <<>> ELSE <<r.next>>]
    /\ UNCHANGED <<construct, codes, budget, events, stack, point, cursor,
                   attempts, kind, info, remainder, looked_up>>

NextShift == ShiftTo

SpecShift == InitShift /\ [][NextShift]_vars

(***************************************************************************)
(* The shape of a setext heading, read off the codes alone.                *)
(***************************************************************************)
(***************************************************************************)
(* Long labels folded over two lines: `[`, 997..1001 ordinary bytes, a     *)
(* line feed and a space are already fetched, MaxTail more units follow.   *)
(***************************************************************************)
InitLabelFolded ==
    /\ construct = "label"
    /\ state = "label_start"
    /\ budget = MaxTail
    /\ codes \in {<<"[">> \o [i \in 1..n |-> "a"] \o <<"lf", "sp">> : n \in Fills}
    /\ events = <<>>
    /\ stack = <<>>
    /\ point = StartPoint
    /\ cursor = 1
    /\ attempts = <<>>
    /\ kind = "None"
    /\ info = [connect |-> FALSE, data |-> FALSE, size |-> 0]
    /\ remainder = <<>>
    /\ panic = ""
    /\ shift = NoShift
    /\ looked_up = NoName

SpecLabelFolded == InitLabelFolded /\ [][NextLabel]_vars

(***************************************************************************)
(* The void table: one Name is looked up in VOID_EVENTS.                   *)
(***************************************************************************)
InitNames ==
    /\ construct = "VOID_EVENTS"
    /\ state = "VOID_EVENTS"
    /\ budget = 0
    /\ codes = <<>>
    /\ events = <<>>
    /\ stack = <<>>
    /\ point = StartPoint
    /\ cursor = 1
    /\ attempts = <<>>
    /\ kind = "None"
    /\ info = [connect |-> FALSE, data |-> FALSE, size |-> 0]
    /\ remainder = <<>>
    /\ panic = ""
    /\ shift = NoShift
    /\ looked_up \in Names

\* VOID_EVENTS.iter().any(|d| d == looked_up)
Contains ==
    /\ state = "VOID_EVENTS"
    /\ state' = IF looked_up \in VOID_EVENTS THEN "void" ELSE "not void"
    /\ UNCHANGED <<construct, codes, budget, events, stack, point, cursor,
                   attempts, kind, info, remainder, panic, shift, looked_up>>

NextNames == Contains

SpecNames == InitNames /\ [][NextNames]_vars

Final == {"Ok", "Nok", "Panic"}

\* cs[from..to] is whitespace_optional (1*'-' | 1*'=') whitespace_optional
\* with fewer than TAB_SIZE columns of leading whitespace.  `indent` bounds
\* the leading whitespace from below and from above.
UnderlineRun(cs, from, to, least, most) ==
    \E a \in from..to : \E b \in a..to :
        /\ \A p \in from..(a - 1) : cs[p] \in SpaceOrTab
        /\ a - from >= least
        /\ a - from <= most
        /\ cs[a] \in {"-", "="}
        /\ \A p \in a..b : cs[p] = cs[a]
        /\ \A p \in (b + 1)..to : cs[p] \in SpaceOrTab

UnderlineShape(cs, from, to) == UnderlineRun(cs, from, to, 0, TAB_SIZE - 1)

\* The first positions of the text lines of cs[1..e-1], and the last
\* position of the line that starts at s.
LineStarts(cs, e) == {1} \cup {i + 1 : i \in {j \in 1..(e - 1) : cs[j] \in Eol}}
LineStop(cs, s, e) ==
    CHOOSE q \in (s - 1)..(e - 1) :
        /\ q = e - 1 \/ cs[q + 1] \in Eol
        /\ \A p \in s..q : cs[p] \notin Eol

Blank(cs, s, q) == \A p \in s..q : cs[p] \in SpaceOrTab

\* cs[1..k] is line *(eol line) eol underline; blank_first says whether the
\* first line may consist of whitespace only.
HeadingShape(cs, k, blank_first) ==
    \E e \in 2..(k - 1) :
        /\ cs[e] \in Eol
        /\ \A p \in (e + 1)..k : cs[p] \notin Eol
        /\ UnderlineShape(cs, e + 1, k)
        /\ \A s \in LineStarts(cs, e) :
              LET q == LineStop(cs, s, e)
              IN  /\ q >= s
                  /\ (s > 1 \/ ~blank_first) => ~Blank(cs, s, q)

\* The input begins with a heading of k codes, followed by a line ending or
\* the end of the input.
Matches(cs, k, blank_first) ==
    /\ k < Len(cs)
    /\ cs[k + 1] \in Eol \cup {"eof"}
    /\ HeadingShape(cs, k, blank_first)

\* No input that starts with cs begins with a heading: cs has no heading in
\* it and ends at the end of the input or in a blank line after the first.
NoHeading(cs, blank_first) ==
    /\ \A k \in 1..(Len(cs) - 1) : ~Matches(cs, k, blank_first)
    /\ cs # <<>>
    /\ \/ Last(cs) = "eof"
       \/ /\ Last(cs) \in Eol
          /\ \E s \in LineStarts(cs, Len(cs)) :
                s > 1 /\ LineStop(cs, s, Len(cs)) = Len(cs) - 1
                      /\ Blank(cs, s, Len(cs) - 1)

\* C1 as stated: heading_setext returns Ok exactly when the input begins with
\* line *(eol line) eol whitespace_optional (1*'-' | 1*'=') whitespace_optional
\* with no blank text line, an underline indent below 4 columns and one
\* marker kind, followed by a line ending or the end of the input; otherwise Nok.
C1_OkIffHeadingNoBlankLine ==
    /\ state = "Ok" => Matches(codes, cursor - 1, FALSE)
    /\ state = "Nok" => NoHeading(codes, FALSE)

\* C1 amended: the same, except that only the text lines after the first
\* must not be blank; the first line only has to be non-empty and may
\* consist of whitespace.
C1_OkIffHeading ==
    /\ state = "Ok" => Matches(codes, cursor - 1, TRUE)
    /\ state = "Nok" => NoHeading(codes, TRUE)
    /\ state \in {"Ok", "Nok"} => cursor = Len(codes)

\* A heading of two text lines with an indented underline was accepted.
C1_Witness ==
    /\ state = "Ok"
    /\ codes = <<"a", "lf", "a", "lf", "sp", "=", "eof">>

(***************************************************************************)
(* Event logs as bracket sequences.                                        *)
(***************************************************************************)
\* The names still open after the events of evs, <<"#">> once an Exit did
\* not close the innermost open Enter.
RECURSIVE Nesting(_)
Nesting(evs) ==
    IF evs = <<>> THEN <<>>
    ELSE LET open == Nesting(Front(evs))
             e == Last(evs)
         IN  IF open = <<"#">> THEN open
             ELSE IF e.kind = "Enter" THEN Append(open, e.name)
             ELSE IF open # <<>> /\ Last(open) = e.name THEN Front(open)
             ELSE <<"#">>

WellNested(evs) == Nesting(evs) = <<>>

Is(e, k, name) == e.kind = k /\ e.name = name

\* evs[a..b] is a sequence of Enter/Exit pairs with names among `names`.
Pairs(evs, a, b, names) ==
    /\ (b - a + 1) % 2 = 0
    /\ \A i \in a..b :
          (i - a) % 2 = 0 =>
              /\ evs[i].kind = "Enter"
              /\ evs[i].name \in names
              /\ Is(evs[i + 1], "Exit", evs[i].name)

SetextOutline(evs) ==
    LET n == Len(evs)
    IN  \E x \in 5..n : \E h \in {x + 3, x + 5} :
            /\ n \in {h + 2, h + 4}
            /\ Is(evs[1], "Enter", "HeadingSetext")
            /\ Is(evs[2], "Enter", "HeadingSetextText")
            /\ Pairs(evs, 3, x - 1, {"ChunkText", "LineEnding", "Whitespace"})
            /\ Is(evs[x], "Exit", "HeadingSetextText")
            /\ Pairs(evs, x + 1, x + 2, {"LineEnding"})
            /\ Pairs(evs, x + 3, h - 1, {"Whitespace"})
            /\ Is(evs[h], "Enter", "HeadingSetextUnderline")
            /\ Pairs(evs, h + 1, n - 2, {"Whitespace"})
            /\ Is(evs[n - 1], "Exit", "HeadingSetextUnderline")
            /\ Is(evs[n], "Exit", "HeadingSetext")

\* C2: whenever heading_setext returns Ok its events are a well-nested
\* bracket sequence in the outline Enter HeadingSetext, Enter HeadingSetextText,
\* ChunkText / LineEnding / Whitespace pairs, Exit HeadingSetextText, a
\* LineEnding pair, an optional Whitespace pair, Enter HeadingSetextUnderline,
\* ..., Exit HeadingSetextUnderline, Exit HeadingSetext, and no span is left open.
C2_OkEventsWellNested ==
    state = "Ok" => /\ WellNested(events)
                    /\ SetextOutline(events)
                    /\ stack = <<>>

\* Ok after two text lines, the second one indented.
C2_Witness ==
    /\ state = "Ok"
    /\ Len(SelectSeq(events, LAMBDA e : Is(e, "Enter", "ChunkText"))) = 2
    /\ \E i \in 1..Len(events) : i < 10 /\ Is(events[i], "Enter", "Whitespace")

LabelOutline(evs) ==
    LET n == Len(evs)
    IN  /\ n >= 10
        /\ Is(evs[1], "Enter", Options.label)
        /\ Pairs(evs, 2, 3, {Options.marker})
        /\ Is(evs[4], "Enter", Options.string)
        /\ Pairs(evs, 5, n - 4, {"ChunkString", "Whitespace"})
        /\ evs[5].name = "ChunkString"
        /\ \A i \in 5..(n - 4) :
              Is(evs[i], "Enter", "Whitespace") =>
                  /\ Is(evs[i - 1], "Exit", "ChunkString")
                  /\ evs[i].point.column = 1
        /\ Is(evs[n - 3], "Exit", Options.string)
        /\ Pairs(evs, n - 2, n - 1, {Options.marker})
        /\ Is(evs[n], "Exit", Options.label)

\* C3: whenever the label factory returns Ok its events are a well-nested
\* bracket sequence Enter label, Enter marker, Exit marker, Enter string,
\* one or more ChunkString pairs with optional Whitespace pairs at line
\* starts, Exit string, Enter marker, Exit marker, Exit label; each marker
\* span covers exactly one bracket, the point is right after the closing
\* `]`, and no code is handed back.
C3_LabelOkEvents ==
    state = "Ok" =>
        LET n == Len(events)
        IN  /\ WellNested(events)
            /\ stack = <<>>
            /\ LabelOutline(events)
            /\ codes[1] = "["
            /\ events[2].point = StartPoint
            /\ events[3].point = advance(StartPoint, "[")
            /\ codes[cursor - 1] = "]"
            /\ events[n - 1].point = advance(events[n - 2].point, "]")
            /\ events[n - 1].point = point
            /\ events[n].point = point
            /\ cursor = Len(codes) + 1
            /\ remainder = <<>>

\* Ok for a label of two lines, the second one indented.
C3_Witness ==
    /\ state = "Ok"
    /\ codes = <<"[", "a", "lf", "sp", "a", "]">>

(***************************************************************************)
(* Labels, read off the codes alone.                                       *)
(***************************************************************************)
\* cs[p] follows an unescaped backslash.
RECURSIVE Escaped(_, _)
Escaped(cs, p) == p > 1 /\ cs[p - 1] = "\\" /\ ~Escaped(cs, p - 1)

\* The label was opened and the code fetched last is its latest code.
InLabel == Len(codes) >= 2 /\ codes[1] = "["

\* C4: a `[`, `\` or `]` that immediately follows an unescaped `\` is
\* consumed as label content: it neither closes the label nor makes it
\* fail, so `[a\]b]` is one label (Ok only at the final `]`).
C4_EscapedBracketIsContent ==
    (InLabel /\ Last(codes) \in {"[", "\\", "]"} /\ Escaped(codes, Len(codes))) =>
        /\ state \notin Final
        /\ cursor = Len(codes) + 1

\* C8: end of input or an unescaped `[` after the opening bracket makes the
\* label factory return Nok, in whichever state it is met.
C8_NokOnEofOrUnescapedOpen ==
    (InLabel /\ (\/ Last(codes) = "eof"
                 \/ Last(codes) = "[" /\ ~Escaped(codes, Len(codes)))) =>
        state = "Nok"

\* C9: every byte other than `[`, `]`, `\`, space, tab and line endings is
\* ordinary label text: it is consumed, sets data and leaves the machine in
\* the label state; a label of 1..999 such bytes and `]` is accepted.
C9_OrdinaryByteIsText ==
    /\ (InLabel /\ Last(codes) \in {"a", "/"} /\ Len(codes) - 1 <= LINK_REFERENCE_SIZE_MAX) =>
          /\ state = "label"
          /\ info.data
          /\ cursor = Len(codes) + 1
    /\ (/\ Len(codes) >= 3
        /\ Len(codes) - 2 <= LINK_REFERENCE_SIZE_MAX
        /\ codes[1] = "["
        /\ Last(codes) = "]"
        /\ \A p \in 2..(Len(codes) - 1) : codes[p] \in {"a", "/"}) =>
          state = "Ok"

AllA(cs, from, to) == \A p \in from..to : cs[p] = "a"

\* C5: the size limit is 999 inclusive.  `[`, 999 ordinary bytes and `]` is
\* accepted; no label of 1000 or more ordinary bytes on one line is
\* accepted, and after `[` and 1000 ordinary bytes the next code, whatever
\* it is, gives Nok.
C5_SizeLimitInclusive ==
    /\ [](/\ (/\ Len(codes) = LINK_REFERENCE_SIZE_MAX + 2
              /\ AllA(codes, 2, LINK_REFERENCE_SIZE_MAX + 1)
              /\ Last(codes) = "]") => state = "Ok"
          /\ (state = "Ok" /\ AllA(codes, 2, cursor - 2)) =>
                 cursor - 3 <= LINK_REFERENCE_SIZE_MAX)
    /\ [][(/\ state \notin Final
           /\ cursor = LINK_REFERENCE_SIZE_MAX + 3
           /\ AllA(codes, 2, LINK_REFERENCE_SIZE_MAX + 2)) => state' = "Nok"]_vars

\* `[`, 999 ordinary bytes and `]` were accepted.
C5_Witness ==
    /\ state = "Ok"
    /\ Len(codes) = LINK_REFERENCE_SIZE_MAX + 2
    /\ info.size = LINK_REFERENCE_SIZE_MAX

\* C6: the label factory returns Ok only if some code between the brackets
\* is neither space, tab, virtual space nor a line ending; `[]` and every
\* label of whitespace and line endings only gives Nok at the closing `]`.
C6_BlankLabelNok ==
    /\ state = "Ok" =>
          \E p \in 2..(cursor - 2) : codes[p] \notin SpaceOrTab \cup Eol
    /\ (/\ InLabel
        /\ Last(codes) = "]"
        /\ \A p \in 2..(Len(codes) - 1) : codes[p] \in SpaceOrTab \cup Eol) =>
          /\ state = "Nok"
          /\ cursor = Len(codes)

\* Nok at the `]` of a label of a space, a line ending and a space.
C6_Witness ==
    /\ state = "Nok"
    /\ codes = <<"[", "sp", "lf", "sp", "]">>

\* C7: after a line ending inside a label and the optional whitespace that
\* follows it, a line ending (a blank line) gives Nok; any other code is
\* handled as at_break handles it: Nok on end of input, on `[`, on `]`
\* without data and over the size limit, Ok on `]`, and otherwise a
\* ChunkString is opened at that code.
C7_NoBlankLine ==
    [][(/\ state \in {"line_start", "space_or_tab_inside"}
        /\ cursor <= Len(codes')
        /\ codes'[cursor] \notin SpaceOrTab) =>
           LET code == codes'[cursor]
           IN  IF code \in Eol \cup {"eof", "["} THEN state' = "Nok"
               ELSE IF code = "]" /\ ~info.data THEN state' = "Nok"
               ELSE IF info.size > LINK_REFERENCE_SIZE_MAX THEN state' = "Nok"
               ELSE IF code = "]" THEN state' = "Ok"
               ELSE /\ state' \in {"label", "escape"}
                    /\ Is(Last(events'), "Enter", "ChunkString")
                    /\ Last(events').point = point
                    /\ cursor' = cursor + 1]_vars

\* Nok at the line ending of a second line that holds one space only.
C7_Witness ==
    /\ state = "Nok"
    /\ codes = <<"[", "a", "lf", "sp", "lf">>

(***************************************************************************)
(* Indentation of the underline.                                           *)
(***************************************************************************)
\* The second line of the input is cs[3..k]: a run of `least`..`most`
\* whitespace codes, markers of one kind, optional whitespace; cs[k+1], the
\* code fetched last, ends the line.
SecondLineUnderline(cs, least, most) ==
    /\ Len(cs) >= 4
    /\ cs[1] = "a"
    /\ cs[2] \in Eol
    /\ Last(cs) \in Eol \cup {"eof"}
    /\ \A p \in 3..(Len(cs) - 1) : cs[p] \notin Eol \cup {"eof"}
    /\ UnderlineRun(cs, 3, Len(cs) - 1, least, most)

\* The number of whitespace codes that open the line holding position p - 1.
RECURSIVE LineIndent(_, _, _)
LineIndent(cs, s, p) ==
    IF s < p /\ cs[s] \in SpaceOrTab THEN 1 + LineIndent(cs, s + 1, p) ELSE 0

LastLineStart(cs, p) ==
    CHOOSE s \in 1..p : /\ \A q \in s..(p - 1) : cs[q] \notin Eol
                        /\ s = 1 \/ cs[s - 1] \in Eol

\* C10: a line with 4 or more columns of leading whitespace is never
\* accepted as the underline; the input `a`, line ending, 4 spaces, `=`,
\* line ending gives Nok as a whole (after the step that takes the last
\* line ending again as text, the next step returns Nok); the same line
\* with 0 to 3 columns of leading whitespace is accepted.
C10_IndentedUnderline ==
    /\ state = "Ok" =>
          LineIndent(codes, LastLineStart(codes, cursor), cursor) < TAB_SIZE
    /\ SecondLineUnderline(codes, 0, TAB_SIZE - 1) => state = "Ok"
    /\ SecondLineUnderline(codes, TAB_SIZE, Len(codes)) =>
          /\ state # "Ok"
          /\ Last(codes) = "eof" => state = "Nok"
    /\ codes = <<"a", "lf", "sp", "sp", "sp", "sp", "=", "lf", "eof">> =>
          \/ state = "Nok"
          \/ state = "text_continue_whitespace" /\ cursor = Len(codes)

\* Nok for `a`, line ending, 4 spaces, `=`, line ending, end of input.
C10_Witness ==
    /\ state = "Nok"
    /\ codes = <<"a", "lf", "sp", "sp", "sp", "sp", "=", "lf", "eof">>

(***************************************************************************)
(* Blank lines in the heading text.                                        *)
(***************************************************************************)
\* The next step calls text_line_start: the line ending was consumed as text
\* and the optional whitespace after it is over or absent.
AtTextLineStart ==
    \/ state = "text_continue_whitespace"
    \/ /\ state = "whitespace_inside"
       /\ attempts # <<>>
       /\ Last(attempts).ok = "text_line_start"

\* C11: heading_setext returns Nok as soon as a line after the first text
\* line is blank: once the line ending was taken as text (the line is not an
\* underline) and the optional whitespace is passed, a line ending or the
\* end of the input as the next code gives Nok in that very step, at that
\* code; any other code starts a text chunk.
C11_BlankTextLineNok ==
    [][(AtTextLineStart /\ codes'[cursor] \notin SpaceOrTab) =>
          IF codes'[cursor] \in Eol \cup {"eof"}
          THEN /\ state' = "Nok"
               /\ cursor' = Len(codes')
               /\ codes'[cursor'] \in Eol \cup {"eof"}
          ELSE /\ state' # "Nok"
               /\ \E i \in 1..Len(events') : Is(events'[i], "Enter", "ChunkText")
                                               /\ events'[i].point = point]_vars

\* Nok at the line ending of a third line that holds one space only.
C11_Witness ==
    /\ state = "Nok"
    /\ codes = <<"a", "lf", "a", "lf", "sp", "lf">>

(***************************************************************************)
(* The underline attempt and its rollback.                                 *)
(***************************************************************************)
\* An event without its link, and a log without its links.
Strip(e) == [kind |-> e.kind, name |-> e.name, point |-> e.point]
Unlinked(evs) == [i \in 1..Len(evs) |-> Strip(evs[i])]

\* The attempt started in text_inside is in progress; it is the outermost.
UnderlineAttempt == attempts # <<>> /\ attempts[1].nok = "text_continue"

\* C12: when the underline attempt started in text_inside returns Nok,
\* text_continue sees the tokenizer as it was at the attempt's start: the
\* log has the length and the contents it had then, its last event the
\* Exit HeadingSetextText, the point and the cursor are those of the start
\* and no attempt is open; nothing emitted inside the attempt remains.
\* Step by step: the frame records the log length, point and cursor of the
\* start; while the attempt runs the log below that length and the frame do
\* not change; and the step that fails the attempt leaves exactly what
\* text_continue makes of the start state: the log of the start without its
\* last event (reopening the text span), one LineEnding pair at the start
\* point, and the line ending consumed.
C12_RollbackBeforeTextContinue ==
    /\ [](UnderlineAttempt =>
              LET L == attempts[1].events_len
              IN  /\ L <= Len(events)
                  /\ Is(events[L], "Exit", "HeadingSetextText")
                  /\ events[L].point = attempts[1].point
                  /\ codes[attempts[1].cursor] \in Eol)
    /\ [][(attempts = <<>> /\ attempts' # <<>> /\ attempts'[1].nok = "text_continue") =>
              /\ attempts'[1].events_len = Len(events) + 2
              /\ SubSeq(events', 1, Len(events)) = events
              /\ attempts'[1].point = point
              /\ attempts'[1].cursor = cursor]_vars
    /\ [][(UnderlineAttempt /\ attempts' # <<>>) =>
              /\ attempts'[1] = attempts[1]
              /\ SubSeq(events', 1, attempts[1].events_len)
                     = SubSeq(events, 1, attempts[1].events_len)]_vars
    /\ [][(UnderlineAttempt /\ attempts' = <<>> /\ state' # "Ok") =>
              LET frame == attempts[1]
                  L == frame.events_len
                  eol == codes[frame.cursor]
              IN  /\ state' = "text_continue_whitespace"
                  /\ Len(events') = L + 1
                  /\ Unlinked(SubSeq(events', 1, L - 1)) = Unlinked(SubSeq(events, 1, L - 1))
                  /\ Strip(events'[L]) = Strip(Event("Enter", "LineEnding", frame.point))
                  /\ Strip(events'[L + 1])
                         = Strip(Event("Exit", "LineEnding", advance(frame.point, eol)))
                  /\ point' = advance(frame.point, eol)
                  /\ cursor' = frame.cursor + 1
                  /\ stack' = <<"HeadingSetext", "HeadingSetextText">>]_vars

\* The attempt was rolled back after a line ending, whitespace, an underline
\* marker and trailing whitespace had been emitted inside it.
C12_Witness ==
    /\ state = "text_continue_whitespace"
    /\ codes = <<"a", "lf", "sp", "-", "sp", "a">>
    /\ Len(events) = 6
    /\ attempts = <<>>

(***************************************************************************)
(* What leaves the event log.                                              *)
(***************************************************************************)
\* The least log length a rollback in the next step can go back to: the
\* lengths recorded by the attempts in progress, or the present length.
Cut ==
    LET lens == {Len(events)}
                \cup {attempts[i].events_len :
                         i \in {j \in 1..Len(attempts) : attempts[j].rollback}}
    IN  CHOOSE c \in lens : \A d \in lens : c <= d

\* The first n events are still in the log.
Keeps(n) ==
    /\ Len(events') >= n
    /\ Unlinked(SubSeq(events', 1, n)) = Unlinked(SubSeq(events, 1, n))

\* The step in which the underline attempt fails and text_continue runs.
TextContinueStep == UnderlineAttempt /\ attempts' = <<>> /\ state' # "Ok"

\* C13 as stated: entries leave the event log only through the rollback of
\* a failed attempt, which truncates the log to the length recorded at the
\* attempt's start; no state function removes events by itself.
C13_OnlyRollbackRemoves == [][Keeps(Cut)]_vars

\* C13 amended: the same, except for text_continue, which after the
\* rollback of the underline attempt removes one more event, the Exit
\* HeadingSetextText that was the last event at the attempt's start
\* (together with the Enter HeadingSetextText it has just appended).
C13_RollbackOrTextContinueRemoves ==
    [][IF TextContinueStep
       THEN /\ Keeps(Cut - 1)
            /\ Is(events[Cut], "Exit", "HeadingSetextText")
            /\ ~Keeps(Cut)
       ELSE Keeps(Cut)]_vars

\* text_continue has removed the Exit HeadingSetextText: the text span is
\* open again and holds the line ending.
C13_Witness ==
    /\ state = "text_continue_whitespace"
    /\ codes = <<"a", "lf", "a">>
    /\ Is(events[4], "Exit", "ChunkText")
    /\ Is(events[5], "Enter", "LineEnding")

(***************************************************************************)
(* Void spans.                                                             *)
(***************************************************************************)
\* C14: no span whose name is in the void set has a child: in every event
\* log of heading_setext and of the label factory the Enter of a
\* HeadingSetextUnderline, of a LineEnding and of a label marker is
\* followed at once by its own Exit, also when the underline has trailing
\* whitespace.
C14_VoidHasNoChild ==
    \A i \in 1..(Len(events) - 1) :
        (events[i].kind = "Enter" /\ events[i].name \in VOID_EVENTS) =>
            Is(events[i + 1], "Exit", events[i].name)

(***************************************************************************)
(* Links.                                                                  *)
(***************************************************************************)
\* Every link of evs points into evs and is answered by the event it
\* points to.
LinksSymmetric(evs) ==
    \A i \in 0..(Len(evs) - 1) :
        /\ At(evs, i).next # <<>> =>
               /\ At(evs, i).next[1] \in 0..(Len(evs) - 1)
               /\ At(evs, At(evs, i).next[1]).previous = <<i>>
        /\ At(evs, i).previous # <<>> =>
               /\ At(evs, i).previous[1] \in 0..(Len(evs) - 1)
               /\ At(evs, At(evs, i).previous[1]).next = <<i>>

\* C15: links are symmetric in every reachable event log: whenever event a
\* has next = b, event b has previous = a, and conversely; so after each
\* linking step of text_continue and text_line_start and after every
\* rollback.
C15_LinksSymmetric == LinksSymmetric(events)

\* After a second rollback, with the whitespace of the second line linked
\* on both sides.
C15_Witness ==
    /\ state = "text_continue_whitespace"
    /\ codes = <<"a", "lf", "sp", "a", "lf", "a">>
    /\ \E i \in 1..Len(events) :
          /\ Is(events[i], "Enter", "Whitespace")
          /\ events[i].previous # <<>>
          /\ events[i].next # <<>>

\* The 0-based indices of the events named by following `next` (or
\* `previous`) from event i, i included, in at most n steps.
RECURSIVE Forward(_, _, _)
Forward(evs, i, n) ==
    IF n = 0 \/ At(evs, i).next = <<>> \/ At(evs, i).next[1] >= Len(evs) THEN {i}
    ELSE {i} \cup Forward(evs, At(evs, i).next[1], n - 1)

RECURSIVE Backward(_, _, _)
Backward(evs, i, n) ==
    IF n = 0 \/ At(evs, i).previous = <<>> \/ At(evs, i).previous[1] >= Len(evs) THEN {i}
    ELSE {i} \cup Backward(evs, At(evs, i).previous[1], n - 1)

ChunkTextEnters(evs) ==
    {i \in 0..(Len(evs) - 1) : Is(At(evs, i), "Enter", "ChunkText")}

\* C16: the ChunkText Enters of a heading text of two or more lines are on
\* one link chain in source order: `next` from the first reaches every
\* later one, `previous` from the last reaches the first, every link goes
\* forward in the log, and every Enter between two of them (line ending,
\* leading whitespace) is on the chain as well.
C16_ChunkTextChain ==
    LET chunks == ChunkTextEnters(events)
        first == CHOOSE i \in chunks : \A j \in chunks : i <= j
        last == CHOOSE i \in chunks : \A j \in chunks : j <= i
        chain == Forward(events, first, Len(events))
    IN  Cardinality(chunks) >= 2 =>
            /\ chunks \subseteq chain
            /\ chunks \subseteq Backward(events, last, Len(events))
            /\ \A i \in chain : At(events, i).next # <<>> => At(events, i).next[1] > i
            /\ \A i \in first..last : At(events, i).kind = "Enter" => i \in chain

\* A heading of two text lines, the second one indented, was accepted.
C16_Witness ==
    /\ state = "Ok"
    /\ codes = <<"a", "lf", "sp", "a", "lf", "-", "eof">>
    /\ Cardinality(ChunkTextEnters(events)) = 2

(***************************************************************************)
(* The spans of a heading text of several lines.                           *)
(***************************************************************************)
\* The number of text lines of an accepted heading: the line endings among
\* the codes consumed.
TextLineCount == Cardinality({p \in 1..(cursor - 1) : codes[p] \in Eol})

Enters(evs, name) == {i \in 0..(Len(evs) - 1) : Is(At(evs, i), "Enter", name)}
Exits(evs, name) == {i \in 0..(Len(evs) - 1) : Is(At(evs, i), "Exit", name)}

\* C17 as stated: a heading text of two or more lines has one
\* HeadingSetextText span per text line, consecutive spans separated by a
\* LineEnding span, each later HeadingSetextText Enter linked to the one
\* before it.
C17_TextSpanPerLine ==
    (state = "Ok" /\ TextLineCount >= 2) =>
        LET texts == Enters(events, "HeadingSetextText")
        IN  /\ Cardinality(texts) = TextLineCount
            /\ \A i \in texts : \A j \in texts :
                   (i < j /\ \A k \in texts : ~(i < k /\ k < j)) =>
                       /\ At(events, j).previous = <<i>>
                       /\ At(events, i).next = <<j>>
                       /\ \E e \in Enters(events, "LineEnding") : i < e /\ e < j

\* C17 amended: a heading text of two or more lines is ONE
\* HeadingSetextText span, without links, around one ChunkText span per
\* text line; consecutive ChunkText spans are separated by a LineEnding
\* span and an optional Whitespace span, and each later ChunkText Enter is
\* linked to the Enter two events before it (the Whitespace or the
\* LineEnding), the Whitespace Enter to the LineEnding Enter, and the
\* LineEnding Enter to the ChunkText Enter of the line before.
C17_OneTextSpan ==
    (state = "Ok" /\ TextLineCount >= 2) =>
        LET chunks == Enters(events, "ChunkText")
            x == CHOOSE i \in Exits(events, "HeadingSetextText") : TRUE
            Linked(a, b) == /\ At(events, a).next = <<b>>
                            /\ At(events, b).previous = <<a>>
        IN  /\ Enters(events, "HeadingSetextText") = {1}
            /\ Cardinality(Exits(events, "HeadingSetextText")) = 1
            /\ At(events, 1).previous = <<>> /\ At(events, 1).next = <<>>
            /\ At(events, x).previous = <<>> /\ At(events, x).next = <<>>
            /\ Cardinality(chunks) = TextLineCount
            /\ \A c \in chunks : 1 < c /\ c < x
            /\ 2 \in chunks
            /\ \A c \in chunks \ {2} :
                   /\ Linked(c - 2, c)
                   /\ IF Is(At(events, c - 2), "Enter", "Whitespace")
                      THEN /\ Is(At(events, c - 4), "Enter", "LineEnding")
                           /\ Linked(c - 4, c - 2)
                           /\ c - 6 \in chunks
                           /\ Linked(c - 6, c - 4)
                      ELSE /\ Is(At(events, c - 2), "Enter", "LineEnding")
                           /\ c - 4 \in chunks
                           /\ Linked(c - 4, c - 2)

\* A heading of two text lines was accepted.
C17_Witness ==
    /\ state = "Ok"
    /\ codes = <<"a", "a", "lf", "a", "lf", "=", "eof">>
    /\ TextLineCount = 2

(***************************************************************************)
(* Line endings.                                                           *)
(***************************************************************************)
\* The point after the first n codes of cs.
RECURSIVE PointAfter(_, _)
PointAfter(cs, n) == IF n = 0 THEN StartPoint ELSE advance(PointAfter(cs, n - 1), cs[n])

\* The positions of the line endings consumed so far.
ConsumedEols == {p \in 1..(cursor - 1) : codes[p] \in Eol}

\* The 1-based positions of the LineEnding pairs whose span is exactly the
\* code at position p.
LineEndingPairs(p) ==
    {i \in 1..(Len(events) - 1) :
        /\ Is(events[i], "Enter", "LineEnding")
        /\ events[i].point = PointAfter(codes, p - 1)
        /\ Is(events[i + 1], "Exit", "LineEnding")
        /\ events[i + 1].point = PointAfter(codes, p)}

\* The 1-based positions of the chunk spans that hold the code at position p.
ChunksOver(p) ==
    {i \in 1..(Len(events) - 1) :
        /\ events[i].kind = "Enter"
        /\ events[i].name \in {"ChunkText", "ChunkString"}
        /\ Is(events[i + 1], "Exit", events[i].name)
        /\ events[i].point.index <= PointAfter(codes, p - 1).index
        /\ events[i + 1].point.index >= PointAfter(codes, p).index}

\* Every LineEnding span is one line ending.
LineEndingSpans ==
    \A i \in 1..Len(events) :
        Is(events[i], "Enter", "LineEnding") =>
            \E p \in ConsumedEols : i \in LineEndingPairs(p)

\* C18 as stated: every line ending consumed by heading_setext or by the
\* label factory is in the log as exactly one LineEnding pair whose span is
\* exactly that line ending (CR, LF or CRLF), never inside a chunk span and
\* never twice.
C18_LineEndingPairs ==
    /\ \A p \in ConsumedEols :
          /\ Cardinality(LineEndingPairs(p)) = 1
          /\ ChunksOver(p) = {}
    /\ LineEndingSpans

\* C18 amended: that holds of heading_setext.  The label factory emits no
\* LineEnding event: every line ending it consumes is the last code of one
\* ChunkString span.
C18_LineEndingPairsOrChunk ==
    IF construct = "heading_setext"
    THEN /\ \A p \in ConsumedEols :
               /\ Cardinality(LineEndingPairs(p)) = 1
               /\ ChunksOver(p) = {}
         /\ LineEndingSpans
    ELSE /\ Enters(events, "LineEnding") = {}
         /\ \A p \in ConsumedEols :
               /\ Cardinality(ChunksOver(p)) = 1
               /\ \A i \in ChunksOver(p) :
                     /\ events[i].name = "ChunkString"
                     /\ events[i + 1].point = PointAfter(codes, p)

\* A CR and a CRLF were consumed as line endings of the heading text.
C18_Witness ==
    /\ construct = "heading_setext"
    /\ codes = <<"a", "cr", "a", "crlf", "eof">>
    /\ ConsumedEols = {2, 4}
    /\ Cardinality(Enters(events, "LineEnding")) = 2

(***************************************************************************)
(* Points.                                                                 *)
(***************************************************************************)
\* p is not after q in the (index, vs) order.
NotAfter(p, q) == p.index < q.index \/ (p.index = q.index /\ p.vs <= q.vs)

\* C19: in every reachable event log of heading_setext and of the label
\* factory adjacent events have non-decreasing points under the
\* (index, vs) order, also right after text_continue has popped and
\* re-linked events and after any rollback; the last event is not after
\* the tokenizer's point.
C19_PointsMonotonic ==
    /\ \A i \in 1..(Len(events) - 1) : NotAfter(events[i].point, events[i + 1].point)
    /\ events # <<>> => NotAfter(Last(events).point, point)

\* After the rollback of an underline attempt that had consumed a tab and
\* its virtual spaces.
C19_Witness ==
    /\ state = "text_continue_whitespace"
    /\ codes = <<"a", "lf", "tab", "vs", "vs", "vs", "a">>
    /\ cursor = 3
    /\ Is(Last(events), "Exit", "LineEnding")

(***************************************************************************)
(* Coverage.                                                               *)
(***************************************************************************)
\* The number of codes before the point pt.
PosOf(pt) == CHOOSE n \in 0..Len(codes) : PointAfter(codes, n) = pt

\* The 1-based positions of the Enters of the leaf spans: the matching Exit
\* is the next event.
Leaves ==
    {i \in 1..(Len(events) - 1) :
        events[i].kind = "Enter" /\ Is(events[i + 1], "Exit", events[i].name)}

\* The leaf spans that hold the code at position p.
LeavesOver(p) ==
    {i \in Leaves : PosOf(events[i].point) < p /\ p <= PosOf(events[i + 1].point)}

\* C20: after a run of heading_setext or of the label factory that returns
\* Ok the leaf spans cover exactly the consumed range: every consumed code,
\* the underline markers and the whitespace skipped at a label line start
\* included, lies inside exactly one leaf span, and no leaf span reaches
\* beyond the consumed range.
C20_LeavesCoverConsumed ==
    state = "Ok" =>
        /\ \A p \in 1..(cursor - 1) : Cardinality(LeavesOver(p)) = 1
        /\ \A i \in Leaves : PosOf(events[i + 1].point) <= cursor - 1

(***************************************************************************)
(* Point::shift_to.                                                        *)
(***************************************************************************)
\* The call is over.
Shifted == state \in {"returned", "Panic"}

\* bytes[self.index..index) of the call, as 1-based positions.
ShiftRange == (shift.self.index + 1)..shift.index

\* The arguments C21 is about: a target after the receiver's index, inside
\* the buffer, with no line ending in between.
ShiftWithinLine ==
    /\ shift.index > shift.self.index
    /\ shift.index <= Len(shift.bytes)
    /\ \A i \in ShiftRange : shift.bytes[i] \notin {"lf", "cr"}

\* C21: for every point p and target index t > p.index with no line ending
\* in bytes[p.index..t), shift_to returns the point that advancing p code
\* by code over those bytes yields: index = t, the line unchanged, the
\* column advanced by one per ordinary byte and up to the next tab stop per
\* tab.
C21_ShiftToAdvances ==
    (Shifted /\ ShiftWithinLine) =>
        /\ state = "returned"
        /\ shift.next = <<AdvanceBytes(shift.self, shift.bytes,
                                       shift.self.index + 1, shift.index)>>
        /\ shift.next[1].index = shift.index
        /\ shift.next[1].line = shift.self.line

\* C22: shift_to aborts with a fatal assertion, returning no point, whenever
\* some byte in [self.index, index) is a line feed or a carriage return;
\* hence every point it returns has the line of its receiver; the receiver
\* is left unchanged.
C22_ShiftToStopsAtLineEnding ==
    /\ [](Shifted =>
             /\ (\E i \in ShiftRange :
                     i <= Len(shift.bytes) /\ shift.bytes[i] \in {"lf", "cr"}) =>
                    /\ state = "Panic"
                    /\ panic # ""
                    /\ shift.next = <<>>
             /\ state = "returned" =>
                    /\ shift.next # <<>>
                    /\ shift.next[1].line = shift.self.line)
    /\ [][shift'.self = shift.self /\ shift'.bytes = shift.bytes]_vars

\* The call stopped at a line feed after two ordinary bytes.
C22_Witness ==
    /\ state = "Panic"
    /\ panic = "cannot move past line endings"
    /\ shift.bytes = <<"a", "a", "lf">>
    /\ shift.self.index = 0
    /\ shift.index = 3

(***************************************************************************)
(* The end of a setext heading.                                            *)
(***************************************************************************)
\* C23: when heading_setext returns Ok, the code that ended the underline (a
\* line ending or the end of the input) is not consumed but handed back: it
\* is the code at the cursor and the remainder, the point is the one reached
\* by the codes before it, on the line of the underline, and the last two
\* events, Exit HeadingSetextUnderline and Exit HeadingSetext, carry that
\* point.
C23_OkHandsBackEnder ==
    (construct = "heading_setext" /\ state = "Ok") =>
        LET n == Len(events)
        IN  /\ cursor = Len(codes)
            /\ codes[cursor] \in Eol \cup {"eof"}
            /\ remainder = <<codes[cursor]>>
            /\ point = PointAfter(codes, cursor - 1)
            /\ n >= 2
            /\ Is(events[n - 1], "Exit", "HeadingSetextUnderline")
            /\ Is(events[n], "Exit", "HeadingSetext")
            /\ events[n - 1].point = point
            /\ events[n].point = point
            /\ \E i \in 1..n :
                   /\ Is(events[i], "Enter", "HeadingSetextUnderline")
                   /\ events[i].point.line = point.line

\* A heading whose underline is ended by a line feed.
C23_Witness ==
    /\ construct = "heading_setext"
    /\ state = "Ok"
    /\ codes = <<"a", "lf", "=", "=", "lf">>
    /\ point.line = 2

\* An underline is open: Enter HeadingSetextUnderline is in the log and no
\* Exit yet.
UnderlineOpen ==
    /\ construct = "heading_setext"
    /\ \E i \in 1..Len(stack) : stack[i] = "HeadingSetextUnderline"

\* The marker of the open underline.
Marker == IF kind = "Dash" THEN "-" ELSE "="

\* The position in the codes of the first marker of the last underline.
UnderlineFrom ==
    LET i == CHOOSE i \in Enters(events, "HeadingSetextUnderline") :
                 \A j \in Enters(events, "HeadingSetextUnderline") : j <= i
    IN  PosOf(events[i].point) + 1

\* The codes from..to are one or more copies of `marker` and then only
\* whitespace.
MarkersThenWhitespace(cs, from, to, marker) ==
    \E b \in from..to :
        /\ \A p \in from..b : cs[p] = marker
        /\ \A p \in (b + 1)..to : cs[p] \in SpaceOrTab

\* The code `c` cannot continue the open underline: it is the other marker,
\* a marker after the trailing whitespace, or any code other than
\* whitespace, a line ending and the end of the input.
BreaksUnderline(c) ==
    /\ c \notin SpaceOrTab \cup Eol \cup {"eof"}
    /\ state = "underline_sequence_inside" => c # Marker

\* C24: a setext underline is one or more copies of a single marker, `-` for
\* kind Dash and `=` for kind EqualsTo, fixed by the first marker, followed
\* only by optional whitespace; a different marker, a marker after the
\* trailing whitespace, or any other code before the line ending or the end
\* of the input makes the underline attempt return Nok: the attempt is
\* rolled back, no underline is left in the log and the text goes on from
\* the line ending the attempt began with.
C24_UnderlineSingleMarker ==
    /\ []((construct = "heading_setext"
           /\ (UnderlineOpen \/ state = "Ok")) =>
             /\ kind \in {"Dash", "EqualsTo"}
             /\ UnderlineFrom <= cursor - 1
             /\ MarkersThenWhitespace(codes, UnderlineFrom, cursor - 1, Marker))
    /\ [][(UnderlineOpen /\ BreaksUnderline(codes'[cursor])) =>
             /\ state' = "text_continue_whitespace"
             /\ Enters(events', "HeadingSetextUnderline") = {}
             /\ attempts' = <<>>
             /\ cursor' = attempts[1].cursor + 1]_vars

\* An underline of `=` met a `-`: the attempt failed and the second line is
\* text.
C24_Witness ==
    /\ construct = "heading_setext"
    /\ codes = <<"a", "lf", "=", "=", "-">>
    /\ state = "text_continue_whitespace"
    /\ cursor = 3
    /\ Enters(events, "HeadingSetextUnderline") = {}

(***************************************************************************)
(* The size of a label.                                                    *)
(***************************************************************************)
\* C25: when the label factory has reached the closing `]`, `size` is the
\* number of codes consumed between the opening `[` and that `]`, every
\* whitespace code and every line ending counted; so no label with more
\* than 999 codes between its brackets is accepted.
C25_SizeCountsEveryCode ==
    (construct = "label" /\ state = "Ok") =>
        /\ info.size = cursor - 3
        /\ cursor - 3 <= LINK_REFERENCE_SIZE_MAX

(***************************************************************************)
(* The chunks of a label.                                                  *)
(***************************************************************************)
\* C26: within one label the first ChunkString Enter has no previous link,
\* and every later ChunkString Enter is linked to the ChunkString Enter
\* immediately before it: its `previous` is that event and that event's
\* `next` is it, also when whitespace events of a line start lie between.
C26_ChunkStringLinked ==
    construct = "label" =>
        LET chunks == Enters(events, "ChunkString")
        IN  \A i \in chunks :
                LET earlier == {j \in chunks : j < i}
                IN  IF earlier = {}
                    THEN At(events, i).previous = <<>>
                    ELSE LET j == CHOOSE j \in earlier : \A k \in earlier : k <= j
                         IN  /\ At(events, i).previous = <<j>>
                             /\ At(events, j).next = <<i>>

\* Two chunks with the whitespace of a line start between them.
C26_Witness ==
    /\ construct = "label"
    /\ state = "Ok"
    /\ codes = <<"[", "a", "lf", "sp", "a", "]">>
    /\ Enters(events, "ChunkString") = {4, 8}
    /\ Enters(events, "Whitespace") = {6}
    /\ At(events, 8).previous = <<4>>

(***************************************************************************)
(* Termination.                                                            *)
(***************************************************************************)
\* The step handed the code at the cursor to a state function that consumed
\* it, or it ended a failed underline attempt, went back to the line ending
\* the attempt began with and consumed that one again in text_continue.
Consumed ==
    \/ cursor' = cursor + 1
    \/ /\ UnderlineAttempt
       /\ attempts' = <<>>
       /\ codes'[attempts[1].cursor] \in Eol
       /\ cursor' = attempts[1].cursor + 1

\* The rank of a tokenizer on its input: the line endings consumed for good
\* (not inside an underline attempt that may still be rolled back), then
\* the cursor.
Committed(t) ==
    Cardinality({p \in 1..(t.cursor - 1) : t.codes[p] \in Eol})
    - (IF t.attempts # <<>> /\ t.attempts[1].nok = "text_continue" THEN 1 ELSE 0)

Rank(t) == Committed(t) * (Len(t.codes) + 2) + t.cursor

\* The state functions a continuation can name.
Continuations ==
    IF construct = "heading_setext"
    THEN {"heading_setext_start", "text_inside", "text_continue_whitespace",
          "underline_start", "underline_sequence_inside", "whitespace_inside"}
    ELSE {"label_start", "at_break", "line_start", "label", "escape",
          "space_or_tab_inside"}

\* Whatever code comes next, the call of the current state function comes
\* back, and it settles the construct or returns a continuation with a
\* higher rank.
Progresses ==
    /\ state \in Continuations
    /\ cursor <= Len(codes) + 1
    /\ \A cs \in Fetch :
           (state = "heading_setext_start" => cs[cursor] \notin Eol \cup {"eof"}) =>
               \A t \in {Call(state, Tokenizer(cs), cs[cursor])} :
                   /\ t.panic = ""
                   /\ \/ t.state \in {"Ok", "Nok"}
                      \/ /\ t.state \in Continuations
                         /\ Rank(t) > Rank(Tokenizer(cs))
                         /\ Rank(t) <= (Len(cs) + 2) * (Len(cs) + 2)

\* C27: on every finite input heading_setext and the label factory settle
\* to Ok or Nok after finitely many steps: from every state that is not
\* settled the next call comes back (its tail calls on the one code end)
\* and settles the construct or raises a rank that the length of the input
\* bounds, and every step that returns a continuation has consumed at
\* least one code.
C27_Settles ==
    /\ [](state \notin {"Ok", "Nok"} => Progresses)
    /\ [][state' \notin {"Ok", "Nok"} => (panic' = "" /\ Consumed)]_vars

\* A heading of two text lines settled after a failed underline attempt.
C27_Witness ==
    /\ construct = "heading_setext"
    /\ state = "Ok"
    /\ codes = <<"a", "lf", "a", "lf", "-", "eof">>

(***************************************************************************)
(* Assertions.                                                             *)
(***************************************************************************)
\* C28: in every run of heading_setext and of the label factory each exit
\* is made while the most recent unmatched Enter has the name given, so the
\* LIFO assertion of exit never fails; the spans the event log leaves open
\* are the ones on the stack, also after text_continue has re-opened
\* HeadingSetextText and when exit(string) is reached from line_begin.
C28_ExitsMatch ==
    /\ panic \notin {"expected exit to match current", "cannot close w/o open tokens"}
    /\ state # "Panic" => Nesting(events) = stack

\* A heading of two text lines and a label of two lines: every exit
\* matched.
C28_Witness ==
    /\ state = "Ok"
    /\ stack = <<>>
    /\ \/ codes = <<"a", "lf", "sp", "a", "lf", "=", "eof">>
       \/ codes = <<"[", "a", "lf", "sp", "]">>

\* The step ended a failed underline attempt: text_continue ran.
UnderlineFailed == UnderlineAttempt /\ attempts' = <<>> /\ state' \notin {"Ok", "Nok"}

\* C29: when heading_setext::start is invoked with a code that is neither a
\* line ending nor the end of the input, no unreachable! arm is executed in
\* the run: underline_before is only invoked with a line-ending code, and
\* text_continue receives again the line ending on which the failed
\* underline attempt was started, which it puts in a LineEnding span.
C29_NoUnreachable ==
    /\ [](construct = "heading_setext" =>
             /\ panic \notin {"expected eol", "expected non-eol/eof"}
             /\ UnderlineAttempt => codes[attempts[1].cursor] \in Eol)
    /\ [][(construct = "heading_setext" /\ UnderlineFailed) =>
             LET n == Len(events')
             IN  /\ panic' = ""
                 /\ codes'[attempts[1].cursor] \in Eol
                 /\ cursor' = attempts[1].cursor + 1
                 /\ Is(events'[n - 1], "Enter", "LineEnding")
                 /\ Is(events'[n], "Exit", "LineEnding")
                 /\ events'[n - 1].point = attempts[1].point
                 /\ events'[n].point = advance(attempts[1].point,
                                               codes'[attempts[1].cursor])]_vars

\* The underline attempt on the first line ending failed and the text went
\* on.
C29_Witness ==
    /\ construct = "heading_setext"
    /\ codes = <<"a", "lf", "a", "a">>
    /\ state = "text_inside"
    /\ cursor = 5
    /\ panic = ""
    /\ Enters(events, "LineEnding") # {}

(***************************************************************************)
(* The start of a label.                                                   *)
(***************************************************************************)
\* C30: the start of the label factory, invoked with any code other than
\* `[`, returns Nok without appending an event, without consuming the code
\* and without changing the point.
C30_StartNokLeavesNoTrace ==
    /\ []((construct = "label" /\ codes # <<>> /\ codes[1] # "[") =>
             /\ state = "Nok"
             /\ events = <<>>
             /\ stack = <<>>
             /\ cursor = 1
             /\ point = StartPoint)
    /\ [][(construct = "label" /\ state = "label_start" /\ codes'[1] # "[") =>
             /\ state' = "Nok"
             /\ events' = events
             /\ cursor' = cursor
             /\ point' = point
             /\ remainder' = <<>>]_vars

\* The label factory was started on a closing bracket.
C30_Witness ==
    /\ construct = "label"
    /\ state = "Nok"
    /\ codes = <<"]">>
    /\ events = <<>>
    /\ cursor = 1

(***************************************************************************)
(* The earliest underline.                                                 *)
(***************************************************************************)
\* The line ending before the underline of an accepted heading.
UnderlineEol == CHOOSE e \in ConsumedEols : \A p \in ConsumedEols : p <= e

\* C31: heading_setext ends the heading at the earliest possible underline:
\* whenever it returns Ok, none of the text lines after the first that it
\* consumed as heading text has underline shape (fewer than TAB_SIZE columns
\* of whitespace, one or more copies of a single marker, optional
\* whitespace, line ending).
C31_EarliestUnderline ==
    (construct = "heading_setext" /\ state = "Ok") =>
        /\ ConsumedEols # {}
        /\ \A s \in LineStarts(codes, UnderlineEol) :
               s > 1 => ~UnderlineShape(codes, s, LineStop(codes, s, UnderlineEol))

\* The second line began like an underline and went on as text; the third
\* line is the underline.
C31_Witness ==
    /\ construct = "heading_setext"
    /\ state = "Ok"
    /\ codes = <<"a", "lf", "-", "a", "lf", "=", "eof">>
    /\ UnderlineEol = 5

(***************************************************************************)
(* Link indices.                                                           *)
(***************************************************************************)
\* The 0-based indices of the events that store a link.
Linked(evs) ==
    {i \in 0..(Len(evs) - 1) : At(evs, i).next # <<>> \/ At(evs, i).previous # <<>>}

\* C32: every link that text_continue or text_line_start has written
\* connects events[previous] and events[next] with both indices inside the
\* event log, previous < next and both events Enter events; no index
\* computed for a link is negative or outside the log, and after every pop
\* and rollback no stored previous or next index lies beyond the end of the
\* log.
C32_LinkIndicesInLog ==
    construct = "heading_setext" =>
        /\ panic \notin {"index out of bounds", "attempt to subtract with overflow"}
        /\ \A i \in Linked(events) :
               /\ At(events, i).kind = "Enter"
               /\ At(events, i).next # <<>> =>
                      /\ At(events, i).next[1] > i
                      /\ At(events, i).next[1] < Len(events)
                      /\ At(events, At(events, i).next[1]).kind = "Enter"
               /\ At(events, i).previous # <<>> =>
                      /\ At(events, i).previous[1] >= 0
                      /\ At(events, i).previous[1] < i
                      /\ At(events, At(events, i).previous[1]).kind = "Enter"

\* The second line is indented: the chunk, the line ending, the whitespace
\* and the second chunk are linked.
C32_Witness ==
    /\ construct = "heading_setext"
    /\ codes = <<"a", "lf", "sp", "a">>
    /\ state = "text_inside"
    /\ cursor = 5
    /\ Cardinality(Linked(events)) = 4

(***************************************************************************)
(* The extent of the chunks of a label.                                    *)
(***************************************************************************)
\* The chunk entered at events[i] (0-based) is closed.
ChunkClosed(i) == i + 1 < Len(events)

\* The positions in the codes of the first and the last code of the chunk
\* entered at events[i]; an open chunk reaches up to the cursor.
ChunkFirst(i) == PosOf(At(events, i).point) + 1
ChunkLast(i) == IF ChunkClosed(i) THEN PosOf(At(events, i + 1).point) ELSE cursor - 1

\* The chunk entered at events[i] covers at least one code, holds at most
\* one line ending, and a line ending in it is its last code.
ChunkExtent(i) ==
    LET a == ChunkFirst(i)
        b == ChunkLast(i)
    IN  /\ ChunkClosed(i) => Is(At(events, i + 1), "Exit", "ChunkString")
        /\ b >= a
        /\ \A p \in a..(b - 1) : codes[p] \notin Eol
        /\ ~ChunkClosed(i) => codes[b] \notin Eol
        /\ codes[a] \notin {"[", "]", "eof"}

\* C33 as stated: every ChunkString span of the label factory covers at
\* least one code, holds at most one line ending, and a line ending in it
\* is its last code; a ChunkString is opened only at the first code of the
\* content, right after `[`, and at the first code after a line ending.
C33_ChunkStringAtLineStart ==
    construct = "label" =>
        \A i \in Enters(events, "ChunkString") :
            /\ ChunkExtent(i)
            /\ \/ ChunkFirst(i) = 2
               \/ codes[ChunkFirst(i) - 1] \in Eol

\* C33 amended: the same, except that after a line ending the ChunkString
\* is opened at the first code that follows the whitespace opening the new
\* line; that whitespace is in no ChunkString.
C33_ChunkStringExtent ==
    construct = "label" =>
        \A i \in Enters(events, "ChunkString") :
            LET a == ChunkFirst(i)
            IN  /\ ChunkExtent(i)
                /\ \/ a = 2
                   \/ /\ codes[a] \notin SpaceOrTab
                      /\ \E e \in 2..(a - 1) :
                             /\ codes[e] \in Eol
                             /\ \A p \in (e + 1)..(a - 1) : codes[p] \in SpaceOrTab

\* The first chunk is a line ending alone, the second one starts after the
\* whitespace of the second line.
C33_Witness ==
    /\ construct = "label"
    /\ state = "Ok"
    /\ codes = <<"[", "lf", "sp", "a", "]">>
    /\ Cardinality(Enters(events, "ChunkString")) = 2

(***************************************************************************)
(* The counters of a label.                                                *)
(***************************************************************************)
\* C34: in every reachable state of the label factory `data`, once true,
\* stays true; `size` never decreases, and in the label and escape states
\* it grows by exactly one per code they consume (the closing bracket is
\* consumed by at_break and not counted); `size` never exceeds
\* LINK_REFERENCE_SIZE_MAX + 2, and Ok is never returned while
\* size > LINK_REFERENCE_SIZE_MAX.
C34_LabelCounters ==
    /\ [](construct = "label" =>
             /\ info.size <= LINK_REFERENCE_SIZE_MAX + 2
             /\ state = "Ok" => info.size <= LINK_REFERENCE_SIZE_MAX)
    /\ [][construct = "label" =>
             /\ info.data => info'.data
             /\ info'.size >= info.size
             /\ info'.size - info.size <= cursor' - cursor
             /\ (state \in {"label", "escape"} /\ state' # "Ok") =>
                    info'.size - info.size = cursor' - cursor]_vars

\* After 999 ordinary bytes, a `/` and an escaped `]`, size is 1001.
C34_Witness ==
    /\ construct = "label"
    /\ state = "label"
    /\ info.size = LINK_REFERENCE_SIZE_MAX + 2
    /\ info.data
    /\ codes[cursor - 1] = "]"
    /\ codes[cursor - 2] = "/"

(***************************************************************************)
(* The void table.                                                         *)
(***************************************************************************)
\* C35: VOID_EVENTS holds 55 pairwise distinct names and is exactly the set
\* of Name variants whose documented content model is `void`: a name is
\* found in the list if and only if its documentation says void.
C35_VoidIsDocumentedVoid ==
    /\ Cardinality(VOID_EVENTS) = 55
    /\ VOID_EVENTS \subseteq Names
    /\ state = "void" => looked_up \in DocumentedVoid
    /\ state = "not void" => looked_up \notin DocumentedVoid

(***************************************************************************)
(* Tabs.                                                                   *)
(***************************************************************************)
\* The smallest column after c that is 1 modulo TAB_SIZE.
NextTabStop(c) == CHOOSE s \in (c + 1)..(c + TAB_SIZE) : (s - 1) % TAB_SIZE = 0

\* (index, vs) of p is before (index, vs) of q.
Before(p, q) == p.index < q.index \/ (p.index = q.index /\ p.vs < q.vs)

\* The consumed positions of the tabs whose virtual spaces are consumed too.
ConsumedTabs ==
    {p \in 1..(cursor - 1) :
        /\ codes[p] = "tab"
        /\ p + TAB_SIZE - ((PointAfter(codes, p - 1).column - 1) % TAB_SIZE) - 1
               <= cursor - 1}

\* C36: advancing the point over a tab that starts at column c, the tab
\* byte and its k = TAB_SIZE - ((c - 1) mod TAB_SIZE) - 1 virtual spaces,
\* leaves the column at the next tab stop, advances index by exactly 1,
\* consumes between 1 and TAB_SIZE columns, and moves (index, vs) strictly
\* forward at every single step.
C36_TabAdvance ==
    construct = "heading_setext" =>
        /\ point = PointAfter(codes, cursor - 1)
        /\ \A p \in ConsumedTabs :
               LET from == PointAfter(codes, p - 1)
                   k == TAB_SIZE - ((from.column - 1) % TAB_SIZE) - 1
                   to == PointAfter(codes, p + k)
               IN  /\ \A q \in (p + 1)..(p + k) : codes[q] = "vs"
                   /\ to.column = NextTabStop(from.column)
                   /\ to.index = from.index + 1
                   /\ to.line = from.line
                   /\ to.column - from.column \in 1..TAB_SIZE
                   /\ \A q \in p..(p + k) :
                          Before(PointAfter(codes, q - 1), PointAfter(codes, q))

\* A tab at column 3 and its one virtual space were consumed.
C36_Witness ==
    /\ construct = "heading_setext"
    /\ codes = <<"a", "a", "tab", "vs">>
    /\ cursor = 5
    /\ point = [line |-> 1, column |-> 5, index |-> 3, vs |-> 1]

====
